---- MODULE Spec2Model ----
(***************************************************************************)
(* Haiku: indentation lexer (package lexer) and tree-walking evaluator     *)
(* with its parallel loop engine (package eval), plus the statement        *)
(* dispatch of the command line (main.go execute).                         *)
(***************************************************************************)
EXTENDS Integers, Sequences, FiniteSets, TLC

(***************************************************************************)
(* Bounds of the model.                                                    *)
(***************************************************************************)
MaxLines == 4

\* the length of the byte strings the lexer is run on
MaxBytes == 4

MaxItems == 2

MaxConcurrency == 2

MaxDigits == 3

\* the pieces of text and paths a quoted string is made of
MaxPieces == 2

\* the length of the unquoted scalar texts
MaxChars == 3

\* the entries of a block
MaxEntries == 2

\* the statements of one indentation level of a source text
MaxStmts == 2

VARIABLES
  \* ---- lexer.Lexer ----
  input, pos, readPos, ch, indentStack, pendingTokens, atLineStart,
  \* ---- lexer.Tokenize ----
  tokens, lexDone,
  \* ---- the run: the parsed program, the entry point, the call stack ----
  program, entry, stack, ret,
  \* ---- eval.Evaluator ----
  scope, scopes, prevResponse, requestCallback, collectedRequests,
  defaultTimeout,
  \* ---- locals of the running parallel loop and its goroutines ----
  par, tasks,
  \* ---- the request callback's side: the descriptors it was handed ----
  callbackLog, lastResp, requestCount,
  \* ---- bookkeeping: descriptor identities, parallel loops encountered ----
  nextUid, encountered,
  \* ---- one call of a function of the evaluator: argument and result ----
  callArg, callResult

lexVars == <<input, pos, readPos, ch, indentStack, pendingTokens, atLineStart,
             tokens, lexDone>>

evalVars == <<program, entry, stack, ret, scope, scopes, prevResponse,
              requestCallback, collectedRequests, defaultTimeout, par, tasks,
              callbackLog, lastResp, requestCount,
              nextUid, encountered>>

pureVars == <<callArg, callResult>>

vars == <<lexVars, evalVars, pureVars>>

(***************************************************************************)
(* Lexer                                                                   *)
(***************************************************************************)
\* the byte 0 that readChar stores at the end of the input
NUL == "NUL"

\* the backquote byte that opens and closes a processed string
BACKTICK == "BACKTICK"

Digits == {"0", "1", "2", "3", "4", "5", "6", "7", "8", "9"}

Letters == {"a", "b", "c", "e", "i", "m", "n", "s", "_"}

isDigit(c) == c \in Digits

isIdentStart(c) == c \in Letters

isIdentChar(c) == c \in Letters \/ c \in Digits \/ c = "-"

\* the Lexer struct as one record, for the helpers below
LexerState ==
  [input |-> input, pos |-> pos, readPos |-> readPos, ch |-> ch,
   indentStack |-> indentStack, pendingTokens |-> pendingTokens,
   atLineStart |-> atLineStart]

peekChar(l) ==
  IF l.readPos >= Len(l.input) THEN NUL ELSE l.input[l.readPos + 1]

readChar(l) ==
  [l EXCEPT !.ch = peekChar(l), !.pos = l.readPos, !.readPos = l.readPos + 1]

New(in) ==
  readChar([input |-> in, pos |-> 0, readPos |-> 0, ch |-> NUL,
            indentStack |-> <<0>>, pendingTokens |-> <<>>,
            atLineStart |-> TRUE])

RECURSIVE skipSpaces(_)
skipSpaces(l) ==
  IF l.ch = " " \/ l.ch = "\t" THEN skipSpaces(readChar(l)) ELSE l

RECURSIVE readComment(_)
readComment(l) ==
  IF l.ch # "\n" /\ l.ch # "\r" /\ l.ch # NUL THEN readComment(readChar(l)) ELSE l

RECURSIVE readStringLoop(_)
readStringLoop(l) ==
  IF l.ch = "\"" \/ l.ch = NUL THEN l
  ELSE IF l.ch = "\\" THEN readStringLoop(readChar(readChar(l)))
  ELSE readStringLoop(readChar(l))

readString(l) ==
  LET m == readStringLoop(readChar(l))
  IN IF m.ch = "\"" THEN readChar(m) ELSE m

RECURSIVE readBacktickLoop(_)
readBacktickLoop(l) ==
  IF l.ch # BACKTICK /\ l.ch # NUL THEN readBacktickLoop(readChar(l)) ELSE l

readBacktickContent(l) ==
  LET m == readBacktickLoop(readChar(l))
  IN IF m.ch = BACKTICK THEN readChar(m) ELSE m

RECURSIVE readDigits(_)
readDigits(l) == IF isDigit(l.ch) THEN readDigits(readChar(l)) ELSE l

\* the lexer after the number, and whether the literal contains a "."
readNumber(l) ==
  LET a == IF l.ch = "-" THEN readChar(l) ELSE l
      b == readDigits(a)
  IN IF b.ch = "." /\ isDigit(peekChar(b))
       THEN [l |-> readDigits(readChar(b)), dot |-> TRUE]
       ELSE [l |-> b, dot |-> FALSE]

RECURSIVE readIdentifier(_)
readIdentifier(l) == IF isIdentChar(l.ch) THEN readIdentifier(readChar(l)) ELSE l

keywords ==
  { <<"i","m","p","o","r","t">>, <<"f","o","r">>, <<"i","n">>, <<"g","e","t">>,
    <<"p","o","s","t">>, <<"p","u","t">>, <<"d","e","l","e","t","e">>,
    <<"p","a","t","c","h">>, <<"h","e","a","d">>,
    <<"o","p","t","i","o","n","s">>, <<"h","e","a","d","e","r","s">>,
    <<"b","o","d","y">>, <<"t","r","u","e">>, <<"f","a","l","s","e">>,
    <<"n","u","l","l">>, <<"n","i","l">>, <<"_">> }

lookupKeyword(ident) == IF ident \in keywords THEN "KEYWORD" ELSE "IDENT"

\* leading whitespace of a line: space = 1 unit, tab = 4 units
RECURSIVE countIndent(_, _)
countIndent(l, indent) ==
  IF l.ch = " " THEN countIndent(readChar(l), indent + 1)
  ELSE IF l.ch = "\t" THEN countIndent(readChar(l), indent + 4)
  ELSE [l |-> l, indent |-> indent]

\* consume one line break: "\n", "\r" or "\r\n"
skipLineBreak(l) ==
  LET m == readChar(l)
  IN IF m.ch = "\n" /\ m.input[m.pos] = "\r" THEN readChar(m) ELSE m

\* every level above indent is popped, but a single DEDENT is queued
RECURSIVE popLevelsSingle(_, _)
popLevelsSingle(l, indent) ==
  IF Len(l.indentStack) > 1 /\ l.indentStack[Len(l.indentStack)] > indent
    THEN popLevelsSingle([l EXCEPT
                      !.indentStack = SubSeq(@, 1, Len(@) - 1),
                      !.pendingTokens = <<"DEDENT">>], indent)
    ELSE l

\* the pops of one dedent: every level above indent is popped and queued
RECURSIVE popLevels(_, _)
popLevels(l, indent) ==
  IF Len(l.indentStack) > 1 /\ l.indentStack[Len(l.indentStack)] > indent
    THEN popLevels([l EXCEPT
                      !.indentStack = SubSeq(@, 1, Len(@) - 1),
                      !.pendingTokens = Append(@, "DEDENT")], indent)
    ELSE l

RECURSIVE handleIndentation(_)
handleIndentation(l0) ==
  LET c == countIndent(l0, 0)
      l == c.l
      indent == c.indent
      currentIndent == l.indentStack[Len(l.indentStack)]
  IN IF l.ch = "\n" \/ l.ch = "\r" THEN handleIndentation(skipLineBreak(l))
     ELSE IF l.ch = "#" THEN
       LET m == readComment(l)
       IN IF m.ch = "\n" \/ m.ch = "\r"
            THEN handleIndentation(skipLineBreak(m))
            ELSE handleIndentation(m)
     ELSE IF l.ch = NUL THEN [l |-> l, tok |-> "ILLEGAL"]
     ELSE IF indent > currentIndent THEN
       [l |-> [l EXCEPT !.indentStack = Append(@, indent)], tok |-> "INDENT"]
     ELSE IF indent < currentIndent THEN
       LET p == popLevels(l, indent)
       IN IF Len(p.pendingTokens) > 0
            THEN [l |-> [p EXCEPT !.pendingTokens = Tail(@)],
                  tok |-> Head(p.pendingTokens)]
            ELSE [l |-> p, tok |-> "ILLEGAL"]
     ELSE [l |-> l, tok |-> "ILLEGAL"]

\* an unrecognised byte is returned without being consumed
illegalTokenStay(l) == [l |-> l, tok |-> "ILLEGAL"]

\* the default branch of the switch: an unrecognised byte is one ILLEGAL token
illegalToken(l) == [l |-> readChar(l), tok |-> "ILLEGAL"]

\* the switch on l.ch of NextToken
scanToken(l) ==
  CASE l.ch = NUL ->
         IF Len(l.indentStack) > 1
           THEN [l |-> [l EXCEPT !.indentStack = SubSeq(@, 1, Len(@) - 1)],
                 tok |-> "DEDENT"]
           ELSE [l |-> l, tok |-> "EOF"]
    [] l.ch = "\n" ->
         [l |-> [readChar(l) EXCEPT !.atLineStart = TRUE], tok |-> "NEWLINE"]
    [] l.ch = "\r" ->
         LET m == readChar(l)
         IN IF m.ch = "\n"
              THEN [l |-> [readChar(m) EXCEPT !.atLineStart = TRUE], tok |-> "NEWLINE"]
              ELSE [l |-> [m EXCEPT !.atLineStart = TRUE], tok |-> "NEWLINE"]
    [] l.ch = "#" -> [l |-> readComment(l), tok |-> "COMMENT"]
    [] l.ch = "@" -> [l |-> readChar(l), tok |-> "AT"]
    [] l.ch = "$" -> [l |-> readChar(l), tok |-> "DOLLAR"]
    [] l.ch = "." -> [l |-> readChar(l), tok |-> "DOT"]
    [] l.ch = "\"" -> [l |-> readString(l), tok |-> "STRING"]
    [] l.ch = "[" ->
         IF peekChar(l) = "]"
           THEN [l |-> readChar(readChar(l)), tok |-> "EMPTY_ARRAY"]
           ELSE [l |-> readChar(l), tok |-> "ILLEGAL"]
    [] l.ch = "{" ->
         IF peekChar(l) = "}"
           THEN [l |-> readChar(readChar(l)), tok |-> "EMPTY_OBJ"]
           ELSE [l |-> readChar(l), tok |-> "ILLEGAL"]
    [] l.ch = "-" ->
         IF peekChar(l) = "-" THEN
           LET m == readChar(l)
           IN IF peekChar(m) = "-"
                THEN [l |-> readChar(readChar(m)), tok |-> "TRIPLE_DASH"]
                ELSE [l |-> readChar(m), tok |-> "IDENT"]
         ELSE IF isDigit(peekChar(l)) THEN
           LET n == readNumber(l)
           IN [l |-> n.l, tok |-> IF n.dot THEN "FLOAT" ELSE "INT"]
         ELSE [l |-> readIdentifier(l), tok |-> "IDENT"]
    [] OTHER ->
         IF isDigit(l.ch) THEN
           LET n == readNumber(l)
           IN [l |-> n.l, tok |-> IF n.dot THEN "FLOAT" ELSE "INT"]
         ELSE IF isIdentStart(l.ch) THEN
           LET m == readIdentifier(l)
           IN IF m.ch = BACKTICK
                THEN [l |-> readBacktickContent(m), tok |-> "PROC_STRING"]
                ELSE [l |-> m,
                      tok |-> lookupKeyword(SubSeq(l.input, l.pos + 1, m.pos))]
         ELSE illegalToken(l)

NextToken(l) ==
  IF Len(l.pendingTokens) > 0
    THEN [l |-> [l EXCEPT !.pendingTokens = Tail(@)], tok |-> Head(l.pendingTokens)]
  ELSE IF l.atLineStart THEN
    LET r == handleIndentation([l EXCEPT !.atLineStart = FALSE])
    IN IF r.tok # "ILLEGAL" THEN r ELSE scanToken(skipSpaces(r.l))
  ELSE scanToken(skipSpaces(l))

\* the source texts the lexer is run on: up to MaxLines lines of these shapes
LineSet ==
  { <<"a">>, <<" ", "a">>, <<" ", " ", "a">>, <<"\t", "a">>, <<>>, <<" ", "#">> }

RECURSIVE JoinLines(_)
JoinLines(ls) ==
  IF Len(ls) = 0 THEN <<>>
  ELSE IF Len(ls) = 1 THEN ls[1]
  ELSE ls[1] \o <<"\n">> \o JoinLines(Tail(ls))

\* the bytes of the arbitrary texts: a letter, a blank, a line break, a dash,
\* a quote, a backquote, a byte no token starts with, and a comment mark
ByteSet == {"a", " ", "\n", "-", "\"", BACKTICK, "!", "#"}

\* every text of up to MaxBytes bytes, and the indented texts of InitLexer
LexInputs ==
  UNION {[1..n -> ByteSet] : n \in 0..MaxBytes}
    \cup {JoinLines(ls) : ls \in UNION {[1..n -> LineSet] : n \in 0..MaxLines}}

InitLexer ==
  \E n \in 0..MaxLines : \E ls \in [1..n -> LineSet] :
    LET l == New(JoinLines(ls))
    IN /\ input = l.input
       /\ pos = l.pos
       /\ readPos = l.readPos
       /\ ch = l.ch
       /\ indentStack = l.indentStack
       /\ pendingTokens = l.pendingTokens
       /\ atLineStart = l.atLineStart
       /\ tokens = <<>>
       /\ lexDone = FALSE

\* the Lexer before New has run: the zero value of the struct
ZeroLexer ==
  /\ input = <<>>
  /\ pos = 0
  /\ readPos = 0
  /\ ch = NUL
  /\ indentStack = <<>>
  /\ pendingTokens = <<>>
  /\ atLineStart = FALSE
  /\ tokens = <<>>
  /\ lexDone = FALSE

\* New(input) on one of the texts; readPos is 0 only before New
NewLexer ==
  /\ readPos = 0
  /\ \E in \in LexInputs :
       LET l == New(in)
       IN /\ input' = l.input
          /\ pos' = l.pos
          /\ readPos' = l.readPos
          /\ ch' = l.ch
          /\ indentStack' = l.indentStack
          /\ pendingTokens' = l.pendingTokens
          /\ atLineStart' = l.atLineStart
  /\ UNCHANGED <<tokens, lexDone>>

\* one turn of the loop of Tokenize: NextToken, append, stop on EOF
Tokenize ==
  /\ ~lexDone
  /\ LET r == NextToken(LexerState)
     IN /\ pos' = r.l.pos
        /\ readPos' = r.l.readPos
        /\ ch' = r.l.ch
        /\ indentStack' = r.l.indentStack
        /\ pendingTokens' = r.l.pendingTokens
        /\ atLineStart' = r.l.atLineStart
        /\ tokens' = Append(tokens, r.tok)
        /\ lexDone' = (r.tok = "EOF")
  /\ UNCHANGED input

(***************************************************************************)
(* Values, AST, scopes                                                     *)
(***************************************************************************)
\* dynamically typed values: int64, string, nil, list; "unset" is the
\* absence of a map entry
IntV(n) == [t |-> "int", n |-> n, s |-> "", items |-> <<>>]

StrV(str) == [t |-> "str", n |-> 0, s |-> str, items |-> <<>>]

NilV == [t |-> "nil", n |-> 0, s |-> "", items |-> <<>>]

ListV(xs) == [t |-> "list", n |-> 0, s |-> "", items |-> xs]

Unset == [t |-> "unset", n |-> 0, s |-> "", items |-> <<>>]

BoolV(b) == [t |-> "bool", n |-> IF b THEN 1 ELSE 0, s |-> "", items |-> <<>>]

\* the variable names the programs of the model use
VarNames == {"x", "i", "timeout"}

\* ast.Statement; every node carries every field, Kind tells which are used
NoStmt ==
  [Kind |-> "none", Id |-> 0, Vars |-> <<>>, UsesPrev |-> FALSE, Timeout |-> NilV,
   Parallel |-> FALSE, Concurrency |-> 0, IndexVar |-> "", ItemVar |-> "",
   Iterable |-> NilV, Body |-> <<>>, Branches |-> <<>>, Else |-> <<>>,
   Name |-> "", Value |-> NilV, HasValue |-> FALSE, HasTimeout |-> FALSE]

\* ast.RequestStmt: the URL interpolates the variables Vars, the headers hold
\* "Bearer $_.token" when UsesPrev, the timeout line is the variable
\* timeoutVar ("" when the request has no timeout line)
RequestStmt(id, vs, usesPrev, timeoutVar) ==
  [NoStmt EXCEPT !.Kind = "RequestStmt", !.Id = id, !.Vars = vs,
                 !.UsesPrev = usesPrev,
                 !.HasTimeout = (timeoutVar # ""),
                 !.Timeout = [t |-> "var", n |-> 0, s |-> timeoutVar, items |-> <<>>]]

\* ast.RequestStmt with a timeout line that holds the expression ex
RequestTimeoutStmt(id, ex) ==
  [NoStmt EXCEPT !.Kind = "RequestStmt", !.Id = id, !.HasTimeout = TRUE,
                 !.Timeout = ex]

\* ast.VarDefStmt "@name value"
VarDefStmt(name, ex) ==
  [NoStmt EXCEPT !.Kind = "VarDefStmt", !.Name = name, !.Value = ex,
                 !.HasValue = TRUE]

\* ast.VarDefStmt "@name" without a value
VarDefNoValue(name) == [NoStmt EXCEPT !.Kind = "VarDefStmt", !.Name = name]

SeparatorStmt == [NoStmt EXCEPT !.Kind = "SeparatorStmt"]

ForStmt(id, parallel, concurrency, indexVar, itemVar, iterable, body) ==
  [NoStmt EXCEPT !.Kind = "ForStmt", !.Id = id, !.Parallel = parallel,
                 !.Concurrency = concurrency, !.IndexVar = indexVar,
                 !.ItemVar = itemVar, !.Iterable = iterable, !.Body = body]

\* ast.IfStmt: Branches of [Condition, Body], and Else
IfStmt(branches, els) ==
  [NoStmt EXCEPT !.Kind = "IfStmt", !.Branches = branches, !.Else = els]

\* eval.Scope: vars and parent (0 is the nil parent); the two reserved
\* entries of vars that hold the parallel statistics are kept apart
NewScope(parent) ==
  [vars |-> [v \in VarNames |-> Unset], parent |-> parent,
   hasStats |-> FALSE, stats |-> <<>>]

\* Scope.Get for a user variable: Unset when no scope of the chain has it
RECURSIVE Get(_, _, _)
Get(arena, sc, name) ==
  IF sc = 0 THEN Unset
  ELSE IF arena[sc].vars[name] # Unset THEN arena[sc].vars[name]
  ELSE Get(arena, arena[sc].parent, name)

\* Scope.Get("_parallel_stats_list"): [ok, list]
RECURSIVE GetStatsList(_, _)
GetStatsList(arena, sc) ==
  IF sc = 0 THEN [ok |-> FALSE, list |-> <<>>]
  ELSE IF arena[sc].hasStats THEN [ok |-> TRUE, list |-> arena[sc].stats]
  ELSE GetStatsList(arena, arena[sc].parent)

GetAllParallelStats == GetStatsList(scopes, scope).list

(***************************************************************************)
(* Responses, descriptors, errors                                          *)
(***************************************************************************)
NoToken == "<none>"

\* Evaluator.prevResponse: nil, a descriptor used as mock response, or the
\* mapping a callback returned (with its "token" entry, if it has one)
NilResp == [kind |-> "nil", token |-> NoToken, uid |-> 0]

MockResp(req) == [kind |-> "desc", token |-> NoToken, uid |-> req.uid]

Resp(tok) == [kind |-> "resp", token |-> tok, uid |-> 0]

NoErr == [kind |-> "none", src |-> 0, count |-> 0, firstKind |-> "none", firstSrc |-> 0]

Err(kind, src) == [NoErr EXCEPT !.kind = kind, !.src = src]

\* fmt.Errorf("parallel execution had %d errors, first: %v", len, last error)
ParallelErrLast(errors) ==
  [kind |-> "parallel", src |-> 0, count |-> Len(errors),
   firstKind |-> errors[Len(errors)].kind, firstSrc |-> errors[Len(errors)].src]

\* fmt.Errorf("parallel execution had %d errors, first: %v", len, errors[0])
ParallelErr(errors) ==
  [kind |-> "parallel", src |-> 0, count |-> Len(errors),
   firstKind |-> errors[1].kind, firstSrc |-> errors[1].src]

\* fmt.Sprintf("%v", value)
Format(v) ==
  CASE v.t = "int" ->
         (CASE v.n = 0 -> "0" [] v.n = 1 -> "1" [] v.n = 2 -> "2"
            [] v.n = 3 -> "3" [] v.n = 4 -> "4" [] v.n = 5 -> "5"
            [] OTHER -> "int")
    [] v.t = "str" -> v.s
    [] v.t = "nil" -> "<nil>"
    [] OTHER -> "list"

\* "$" + path
Dollar(name) == IF name = "x" THEN "$x" ELSE IF name = "i" THEN "$i" ELSE "$"

\* getNestedValue(prevResponse, ["token"])
getNestedToken(prev) ==
  IF prev.kind = "resp" /\ prev.token # NoToken THEN StrV(prev.token) ELSE NilV

\* Evaluator.resolveVarPath for "_.token" and for a plain name; env is the
\* evaluator view [vars, prevResponse, defaultTimeout]
resolvePrevToken(env) ==
  IF env.prevResponse.kind = "nil" THEN NilV ELSE getNestedToken(env.prevResponse)

resolveVarPath(env, name) ==
  IF env.vars[name] = Unset THEN StrV(Dollar(name)) ELSE env.vars[name]

\* Evaluator.interpolateString("Bearer $_.token")
interpolateBearer(env) ==
  LET v == Format(resolvePrevToken(env))
  IN CASE v = "abc" -> "Bearer abc"
       [] v = "xyz" -> "Bearer xyz"
       [] OTHER -> "Bearer <nil>"

\* Evaluator.evalVarRef for a plain name
evalVarRef(env, name) ==
  IF env.vars[name] = Unset THEN NilV ELSE env.vars[name]

(***************************************************************************)
(* Texts as byte sequences: strconv, strings, inferType, timeouts          *)
(***************************************************************************)
\* time.Millisecond, time.Second and time.Minute; durations are kept in
\* whole milliseconds
Millisecond == 1

Second == 1000

Minute == 60000

\* the result of converting an infinite or NaN float64 to time.Duration
OutOfRange == -1

DigitVal(c) ==
  CASE c = "0" -> 0 [] c = "1" -> 1 [] c = "2" -> 2 [] c = "3" -> 3 [] c = "4" -> 4
    [] c = "5" -> 5 [] c = "6" -> 6 [] c = "7" -> 7 [] c = "8" -> 8 [] OTHER -> 9

AllDigits(cs) == \A k \in DOMAIN cs : cs[k] \in Digits

\* the value of a text of digits
RECURSIVE DigitsValue(_)
DigitsValue(cs) ==
  IF Len(cs) = 0 THEN 0
  ELSE 10 * DigitsValue(SubSeq(cs, 1, Len(cs) - 1)) + DigitVal(cs[Len(cs)])

HasSign(cs) == Len(cs) > 0 /\ cs[1] \in {"+", "-"}

Unsigned(cs) == IF HasSign(cs) THEN Tail(cs) ELSE cs

\* strconv.ParseInt(s, 10, 64): an optional sign and one or more digits
ParseInt(cs) ==
  LET u == Unsigned(cs)
  IN IF Len(u) > 0 /\ AllDigits(u)
       THEN [ok |-> TRUE,
             n |-> IF HasSign(cs) /\ cs[1] = "-" THEN 0 - DigitsValue(u)
                   ELSE DigitsValue(u)]
       ELSE [ok |-> FALSE, n |-> 0]

\* unicode lower case of the letters of the model
LowerOf(c) ==
  CASE c = "I" -> "i" [] c = "N" -> "n" [] c = "S" -> "s" [] c = "M" -> "m"
    [] OTHER -> c

\* strings.ToLower
ToLower(cs) == [k \in DOMAIN cs |-> LowerOf(cs[k])]

\* the three digits after the "." of a mantissa, as thousandths
Thousandths(frac) ==
  LET f == SubSeq(frac \o <<"0", "0", "0">>, 1, 3) IN DigitsValue(f)

\* the position of the first "." of a text, 0 when it has none
RECURSIVE DotIndex(_, _)
DotIndex(cs, k) ==
  IF k > Len(cs) THEN 0 ELSE IF cs[k] = "." THEN k ELSE DotIndex(cs, k + 1)

\* strconv.ParseFloat(s, 64) on the texts of the model (no exponent, no
\* hexadecimal mantissa): an optional sign, then "inf", "infinity" or, without
\* sign, "nan" in any case, or digits with at most one "."; milli is the value
\* in thousandths
ParseFloat(cs) ==
  LET u == Unsigned(cs)
      low == ToLower(u)
      neg == HasSign(cs) /\ cs[1] = "-"
      dot == DotIndex(u, 1)
      ip == IF dot = 0 THEN u ELSE SubSeq(u, 1, dot - 1)
      fp == IF dot = 0 THEN <<>> ELSE SubSeq(u, dot + 1, Len(u))
      No == [ok |-> FALSE, special |-> "", milli |-> 0]
  IN IF low \in {<<"i","n","f">>, <<"i","n","f","i","n","i","t","y">>}
       THEN [ok |-> TRUE, special |-> IF neg THEN "-Inf" ELSE "+Inf", milli |-> 0]
     ELSE IF ToLower(cs) = <<"n","a","n">>
       THEN [ok |-> TRUE, special |-> "NaN", milli |-> 0]
     ELSE IF AllDigits(ip) /\ AllDigits(fp) /\ Len(ip) + Len(fp) > 0
       THEN [ok |-> TRUE, special |-> "",
             milli |-> LET m == 1000 * DigitsValue(ip) + Thousandths(fp)
                       IN IF neg THEN 0 - m ELSE m]
     ELSE No

\* time.Duration(num * float64(unit)), in milliseconds
Duration(f, unit) ==
  LET a == IF f.milli >= 0 THEN f.milli ELSE 0 - f.milli
      d == (a \div 1000) * unit + ((a % 1000) * unit) \div 1000
  IN IF f.special # "" THEN OutOfRange
     ELSE IF f.milli >= 0 THEN d ELSE 0 - d

IsSpace(c) == c \in {" ", "\t", "\n", "\r"}

\* strings.TrimSpace
RECURSIVE TrimSpace(_)
TrimSpace(cs) ==
  IF Len(cs) > 0 /\ IsSpace(cs[1]) THEN TrimSpace(Tail(cs))
  ELSE IF Len(cs) > 0 /\ IsSpace(cs[Len(cs)]) THEN TrimSpace(SubSeq(cs, 1, Len(cs) - 1))
  ELSE cs

\* the length of the prefix of digits and "." that parseTimeoutString
\* collects in numStr
RECURSIVE numPrefixLen(_)
numPrefixLen(cs) ==
  IF Len(cs) > 0 /\ (isDigit(cs[1]) \/ cs[1] = ".")
    THEN 1 + numPrefixLen(Tail(cs)) ELSE 0

\* parseTimeoutString: [ok, d]
parseTimeoutString(str) ==
  LET s == TrimSpace(str)
      whole == ParseFloat(s)
      k == numPrefixLen(s)
      numStr == SubSeq(s, 1, k)
      num == ParseFloat(numStr)
      unit == ToLower(TrimSpace(SubSeq(s, k + 1, Len(s))))
      Bad == [ok |-> FALSE, d |-> 0]
  IN IF s = <<>> THEN Bad
     ELSE IF whole.ok THEN [ok |-> TRUE, d |-> Duration(whole, Second)]
     ELSE IF numStr = <<>> THEN Bad
     ELSE IF ~num.ok THEN Bad
     ELSE IF unit \in {<<"s">>, <<"s","e","c">>, <<"s","e","c","o","n","d">>,
                       <<"s","e","c","o","n","d","s">>}
       THEN [ok |-> TRUE, d |-> Duration(num, Second)]
     ELSE IF unit \in {<<"m","s">>, <<"m","s","e","c">>,
                       <<"m","i","l","l","i","s","e","c","o","n","d">>,
                       <<"m","i","l","l","i","s","e","c","o","n","d","s">>}
       THEN [ok |-> TRUE, d |-> Duration(num, Millisecond)]
     ELSE IF unit \in {<<"m">>, <<"m","i","n">>, <<"m","i","n","u","t","e">>,
                       <<"m","i","n","u","t","e","s">>}
       THEN [ok |-> TRUE, d |-> Duration(num, Minute)]
     ELSE Bad

\* a Go string of the values of the model as its bytes
Chars(str) == IF str = "v" THEN <<"v">> ELSE <<>>

\* a string value held as its bytes
Text(cs) == [t |-> "text", n |-> 0, s |-> "", items |-> cs]

\* a float64 value: NaN, +Inf, -Inf, or a number in thousandths
FloatV(f) == [t |-> "float", n |-> f.milli, s |-> f.special, items |-> <<>>]

\* parseTimeout, in milliseconds: [ok, d]
parseTimeout(val) ==
  CASE val.t = "int" -> [ok |-> TRUE, d |-> val.n * Second]
    [] val.t = "float" ->
         [ok |-> TRUE, d |-> Duration([special |-> val.s, milli |-> val.n], Second)]
    [] val.t = "str" -> parseTimeoutString(Chars(val.s))
    [] val.t = "text" -> parseTimeoutString(val.items)
    [] OTHER -> [ok |-> FALSE, d |-> 0]

\* Evaluator.inferType on an unquoted scalar text
inferType(cs) ==
  IF cs = <<"t","r","u","e">> THEN BoolV(TRUE)
  ELSE IF cs = <<"f","a","l","s","e">> THEN BoolV(FALSE)
  ELSE IF cs \in {<<"_">>, <<"n","u","l","l">>, <<"n","i","l">>} THEN NilV
  ELSE IF ParseInt(cs).ok THEN IntV(ParseInt(cs).n)
  ELSE IF ParseFloat(cs).ok THEN FloatV(ParseFloat(cs))
  ELSE Text(cs)

\* Evaluator.isTruthy
isTruthy(val) ==
  CASE val.t = "nil" -> FALSE
    [] val.t = "bool" -> val.n = 1
    [] val.t = "int" -> val.n # 0
    [] val.t = "float" -> ~(val.s = "" /\ val.n = 0)
    [] val.t = "str" -> val.s # ""
    [] val.t = "text" -> Len(val.items) > 0
    [] val.t = "list" -> Len(val.items) > 0
    [] OTHER -> FALSE

(***************************************************************************)
(* String interpolation on byte sequences                                  *)
(***************************************************************************)
\* a map[string]interface{} value: items are its entries [key, val]
MapV(entries) == [t |-> "map", n |-> 0, s |-> "", items |-> entries]

\* the bytes of a variable name of the model
NameChars(name) ==
  CASE name = "x" -> <<"x">>
    [] name = "i" -> <<"i">>
    [] OTHER -> <<"t", "i", "m", "e", "o", "u", "t">>

\* the bytes of a token a callback returned
TokenChars(tok) ==
  IF tok = "abc" THEN <<"a", "b", "c">> ELSE <<"x", "y", "z">>

\* Evaluator.prevResponse, a mapping a callback returned, as a map value
PrevValue(prev) ==
  IF prev.token = NoToken THEN MapV(<<>>)
  ELSE MapV(<<[key |-> <<"t", "o", "k", "e", "n">>, val |-> Text(TokenChars(prev.token))]>>)

\* isIdentChar of the evaluator: letters, digits and "_"
isIdentByte(c) ==
  c \in Letters \cup Digits \cup {"k", "o", "t", "u", "v", "x", "y", "z"}

\* strings.Split(path, ".")
RECURSIVE Split(_)
Split(cs) ==
  LET d == DotIndex(cs, 1)
  IN IF d = 0 THEN <<cs>>
     ELSE <<SubSeq(cs, 1, d - 1)>> \o Split(SubSeq(cs, d + 1, Len(cs)))

\* v[key] of a map: nil when the map has no such entry
RECURSIVE MapIndex(_, _)
MapIndex(entries, key) ==
  IF Len(entries) = 0 THEN NilV
  ELSE IF Head(entries).key = key THEN Head(entries).val
  ELSE MapIndex(Tail(entries), key)

\* getNestedValue
RECURSIVE getNestedValue(_, _)
getNestedValue(data, path) ==
  IF Len(path) = 0 THEN data
  ELSE CASE data.t = "map" ->
              getNestedValue(MapIndex(data.items, Head(path)), Tail(path))
         [] data.t = "list" ->
              LET idx == ParseInt(Head(path))
              IN IF idx.ok /\ idx.n >= 0 /\ idx.n < Len(data.items)
                   THEN getNestedValue(data.items[idx.n + 1], Tail(path))
                   ELSE NilV
         [] OTHER -> NilV

\* Scope.Get by the bytes of a name: Unset when no variable has that name
GetChars(vs, cs) ==
  IF \E v \in VarNames : NameChars(v) = cs
    THEN vs[CHOOSE v \in VarNames : NameChars(v) = cs]
    ELSE Unset

\* os.Getenv: the process environment of the model is empty
Getenv(name) == Text(<<>>)

\* Evaluator.resolveVarPath on the bytes of a path
resolvePath(env, path) ==
  LET parts == Split(path)
      name == parts[1]
      val == GetChars(env.vars, name)
  IN IF name = <<"_">> THEN
       IF env.prevResponse.kind = "nil" THEN NilV
       ELSE IF Len(parts) = 1 THEN PrevValue(env.prevResponse)
       ELSE getNestedValue(PrevValue(env.prevResponse), Tail(parts))
     ELSE IF name = <<"e", "n", "v">> /\ Len(parts) > 1 THEN Getenv(parts[2])
     ELSE IF val = Unset THEN Text(<<"$">> \o path)
     ELSE IF Len(parts) = 1 THEN val
     ELSE getNestedValue(val, Tail(parts))

\* the decimal digits of a natural number
RECURSIVE Itoa(_)
Itoa(n) ==
  LET d == <<"0", "1", "2", "3", "4", "5", "6", "7", "8", "9">>
  IN IF n < 10 THEN <<d[n + 1]>> ELSE Itoa(n \div 10) \o <<d[(n % 10) + 1]>>

\* the elements of a slice, separated by a space
RECURSIVE SprintList(_, _)
\* the entries of a map as key:value, separated by a space
RECURSIVE SprintMap(_, _)
\* fmt.Sprintf("%v", value) as bytes
RECURSIVE Sprintv(_)
Sprintv(v) ==
  CASE v.t = "int" -> IF v.n < 0 THEN <<"-">> \o Itoa(0 - v.n) ELSE Itoa(v.n)
    [] v.t = "text" -> v.items
    [] v.t = "str" -> Chars(v.s)
    [] v.t = "bool" -> IF v.n = 1 THEN <<"t", "r", "u", "e">>
                       ELSE <<"f", "a", "l", "s", "e">>
    [] v.t = "list" -> <<"[">> \o SprintList(v.items, 1) \o <<"]">>
    [] v.t = "map" -> <<"m", "a", "p", "[">> \o SprintMap(v.items, 1) \o <<"]">>
    [] OTHER -> <<"<", "n", "i", "l", ">">>

SprintList(xs, k) ==
  IF k > Len(xs) THEN <<>>
  ELSE (IF k > 1 THEN <<" ">> ELSE <<>>) \o Sprintv(xs[k]) \o SprintList(xs, k + 1)

SprintMap(es, k) ==
  IF k > Len(es) THEN <<>>
  ELSE (IF k > 1 THEN <<" ">> ELSE <<>>) \o es[k].key \o <<":">>
         \o Sprintv(es[k].val) \o SprintMap(es, k + 1)

\* the end of the run of identifier and "." bytes that starts at j
RECURSIVE runEnd(_, _)
runEnd(cs, j) ==
  IF j <= Len(cs) /\ (isIdentByte(cs[j]) \/ cs[j] = ".") THEN runEnd(cs, j + 1) ELSE j

\* the loop of Evaluator.interpolateString from position i
RECURSIVE interpolateFrom(_, _, _)
interpolateFrom(env, result, i) ==
  IF i > Len(result) THEN result
  ELSE LET j == runEnd(result, i + 1)
           valueStr == Sprintv(resolvePath(env, SubSeq(result, i + 1, j - 1)))
       IN IF result[i] = "$" /\ j > i + 1
            THEN interpolateFrom(env, SubSeq(result, 1, i - 1) \o valueStr
                                        \o SubSeq(result, j, Len(result)),
                                 i + Len(valueStr))
            ELSE interpolateFrom(env, result, i + 1)

\* Evaluator.interpolateString
interpolateString(env, str) == interpolateFrom(env, str, 1)


(***************************************************************************)
(* Expressions and requests                                                *)
(***************************************************************************)
\* expressions: a literal is its value; ast.VarRef; an unquoted
\* ast.StringLiteral; ast.BinaryExpr of a variable and an integer literal
VarRef(name) == [t |-> "var", n |-> 0, s |-> name, items |-> <<>>]

Unquoted(cs) == [t |-> "unquoted", n |-> 0, s |-> "", items |-> cs]

\* a quoted ast.StringLiteral
Quoted(cs) == [t |-> "quoted", n |-> 0, s |-> "", items |-> cs]

BinaryExpr(op, name, n) == [t |-> "binary", n |-> n, s |-> name, items |-> <<op>>]

\* the order of Go on the string values of the model
StrRank(str) == CASE str = "" -> 0 [] str = "5" -> 1 [] str = "abc" -> 2 [] OTHER -> 3

Sign(a, b) == IF a < b THEN -1 ELSE IF a > b THEN 1 ELSE 0

\* Evaluator.compareValues
compareValues(left, right) ==
  IF left.t = "nil" /\ right.t = "nil" THEN 0
  ELSE IF left.t = "nil" THEN -1
  ELSE IF right.t = "nil" THEN 1
  ELSE CASE left.t = "str" ->
              IF right.t # "str" THEN -1
              ELSE Sign(StrRank(left.s), StrRank(right.s))
         [] left.t = "int" ->
              IF right.t = "int" THEN Sign(left.n, right.n)
              ELSE IF right.t = "float" /\ right.s = ""
                THEN Sign(1000 * left.n, right.n)
              ELSE -1
         [] left.t = "bool" ->
              IF right.t # "bool" THEN -1 ELSE Sign(left.n, right.n)
         [] OTHER -> 0

\* Evaluator.evalBinaryExpr on the evaluated operands
evalBinaryExpr(op, left, right) ==
  CASE op = "==" -> BoolV(compareValues(left, right) = 0)
    [] op = "!=" -> BoolV(compareValues(left, right) # 0)
    [] op = ">" -> BoolV(compareValues(left, right) > 0)
    [] op = "<" -> BoolV(compareValues(left, right) < 0)
    [] op = ">=" -> BoolV(compareValues(left, right) >= 0)
    [] op = "<=" -> BoolV(compareValues(left, right) <= 0)
    [] op = "and" -> BoolV(isTruthy(left) /\ isTruthy(right))
    [] op = "or" -> BoolV(isTruthy(left) \/ isTruthy(right))
    [] OTHER -> BoolV(FALSE)

\* the absence of an expression (a nil ast.Expression)
NoExpr == [t |-> "noexpr", n |-> 0, s |-> "", items |-> <<>>]

\* ast.Entry of a block: Key is empty for a list item
Entry(key, value) == [Key |-> key, Value |-> value]

\* ast.BlockExpr
BlockExpr(entries) == [t |-> "block", n |-> 0, s |-> "", items |-> entries]

\* every entry counts as a list item only when it has no key
IsArrayKeyOnly(block) ==
  \A k \in DOMAIN block.items : ~(block.items[k].Key # <<>>)

\* BlockExpr.IsArray
IsArray(block) ==
  \A k \in DOMAIN block.items :
    ~(block.items[k].Key # <<>> /\ block.items[k].Value # NoExpr)

\* result[key] = val on the entries of a map
MapSet(entries, key, val) ==
  IF \E k \in DOMAIN entries : entries[k].key = key
    THEN [k \in DOMAIN entries |->
            IF entries[k].key = key THEN [key |-> key, val |-> val] ELSE entries[k]]
    ELSE Append(entries, [key |-> key, val |-> val])

RECURSIVE evalExpr(_, _)
\* Evaluator.evalBlockToSlice, on the entries from k on
RECURSIVE evalBlockToSlice(_, _, _)
evalBlockToSlice(env, es, k) ==
  IF k > Len(es) THEN <<>>
  ELSE <<evalExpr(env, es[k].Value)>> \o evalBlockToSlice(env, es, k + 1)

\* Evaluator.evalBlockToMap, on the entries up to k
RECURSIVE evalBlockToMap(_, _, _)
evalBlockToMap(env, es, k) ==
  IF k = 0 THEN <<>>
  ELSE IF es[k].Key # <<>>
    THEN MapSet(evalBlockToMap(env, es, k - 1), es[k].Key, evalExpr(env, es[k].Value))
  ELSE evalBlockToMap(env, es, k - 1)

\* Evaluator.evalExpr
evalExpr(env, ex) ==
  CASE ex.t = "var" -> evalVarRef(env, ex.s)
    [] ex.t = "quoted" -> Text(interpolateString(env, ex.items))
    [] ex.t = "unquoted" -> inferType(ex.items)
    [] ex.t = "binary" ->
         evalBinaryExpr(ex.items[1], evalVarRef(env, ex.s), IntV(ex.n))
    [] ex.t = "block" ->
         IF IsArray(ex) THEN ListV(evalBlockToSlice(env, ex.items, 1))
         ELSE MapV(evalBlockToMap(env, ex.items, Len(ex.items)))
    [] ex.t = "noexpr" -> NilV
    [] OTHER -> ex

RECURSIVE interpolateVars(_, _)
interpolateVars(env, vs) ==
  IF Len(vs) = 0 THEN <<>>
  ELSE <<Format(resolveVarPath(env, Head(vs)))>> \o interpolateVars(env, Tail(vs))

\* the global default wins over the request's own timeout line
evalRequestGlobalFirst(stmt, env, uid) ==
  LET req == [id |-> stmt.Id, url |-> interpolateVars(env, stmt.Vars),
              auth |-> IF stmt.UsesPrev THEN interpolateBearer(env) ELSE "",
              hasTimeout |-> FALSE, timeout |-> 0, uid |-> uid]
      t == parseTimeout(evalExpr(env, stmt.Timeout))
  IN IF env.defaultTimeout > 0
       THEN [ok |-> TRUE, req |-> [req EXCEPT !.hasTimeout = TRUE,
                                             !.timeout = env.defaultTimeout]]
     ELSE IF stmt.HasTimeout /\ t.ok
       THEN [ok |-> TRUE, req |-> [req EXCEPT !.hasTimeout = TRUE, !.timeout = t.d]]
     ELSE [ok |-> stmt.HasTimeout => t.ok, req |-> req]

\* Evaluator.evalRequest: [ok, req]; uid names the map that is created
evalRequest(stmt, env, uid) ==
  LET req == [id |-> stmt.Id, url |-> interpolateVars(env, stmt.Vars),
              auth |-> IF stmt.UsesPrev THEN interpolateBearer(env) ELSE "",
              hasTimeout |-> FALSE, timeout |-> 0, uid |-> uid]
  IN IF stmt.HasTimeout THEN
       LET t == parseTimeout(evalExpr(env, stmt.Timeout))
       IN IF t.ok
            THEN [ok |-> TRUE, req |-> [req EXCEPT !.hasTimeout = TRUE, !.timeout = t.d]]
            ELSE [ok |-> FALSE, req |-> req]
     ELSE IF env.defaultTimeout > 0
       THEN [ok |-> TRUE, req |-> [req EXCEPT !.hasTimeout = TRUE,
                                             !.timeout = env.defaultTimeout]]
     ELSE [ok |-> TRUE, req |-> req]

\* the view of the evaluator that evalRequest reads
Env ==
  [vars |-> [v \in VarNames |-> Get(scopes, scope, v)],
   prevResponse |-> prevResponse, defaultTimeout |-> defaultTimeout]

\* what a call of the request callback can return: an error, a nil mapping,
\* or a mapping with or without a "token" entry
CallbackResults ==
  { [err |-> TRUE, resp |-> NilResp], [err |-> FALSE, resp |-> NilResp],
    [err |-> FALSE, resp |-> Resp("abc")], [err |-> FALSE, resp |-> Resp("xyz")],
    [err |-> FALSE, resp |-> Resp(NoToken)] }

NoReq == [id |-> 0, url |-> <<>>, auth |-> "", hasTimeout |-> FALSE, timeout |-> 0, uid |-> 0]

(***************************************************************************)
(* The call stack of the evaluating goroutine                              *)
(***************************************************************************)
\* one activation: the statement list it walks (stmts, pc) and, for a
\* sequential loop, the loop's locals (stmt, items, iter, oldScope, inBody)
\* and e.scope and what was visible from it when the loop was entered
\* (entryScope, entryVars)
Frame(kind, stmts) ==
  [kind |-> kind, stmts |-> stmts, pc |-> 1, stmt |-> NoStmt, items |-> <<>>,
   iter |-> 0, oldScope |-> 0, inBody |-> FALSE, entryScope |-> 0,
   entryVars |-> [v \in VarNames |-> Unset]]

Top == stack[Len(stack)]

HasCur == Top.pc <= Len(Top.stmts)

Cur == IF HasCur THEN Top.stmts[Top.pc] ELSE NoStmt

NoPar ==
  [fn |-> "none", stmt |-> NoStmt, items |-> <<>>, concurrency |-> 0, sem |-> 0,
   wg |-> 0, errors |-> <<>>, parallelRequests |-> <<>>,
   stats |-> [Total |-> 0, Success |-> 0, Failed |-> 0], times |-> 0,
   baseUid |-> 0]

\* the evaluating goroutine is between two statements
Running == ret.state = "running" /\ par.fn = "none" /\ Len(stack) > 0

\* the statement at hand is dispatched by evalStatementCollect
InCollect ==
  \/ Top.kind \in {"Eval", "evalIf"}
  \/ Top.kind = "evalForCollect" /\ Top.inBody /\ Cur.Kind # "RequestStmt"

\* the statement at hand is dispatched by the switch of execute
InExecute == Top.kind = "execute"

Dispatchable == Running /\ HasCur /\ (InCollect \/ InExecute)

Advance(stk) == [stk EXCEPT ![Len(stk)].pc = @ + 1]

Pop(stk) == SubSeq(stk, 1, Len(stk) - 1)

\* an error travels up the stack and no loop restores its scope
UnwindScopeNone(stk, sc) == sc

\* the scope the caller sees after an error has travelled up the stack:
\* every sequential loop on the way restores its oldScope
RECURSIVE UnwindScope(_, _)
UnwindScope(stk, sc) ==
  IF Len(stk) = 0 THEN sc
  ELSE UnwindScope(Pop(stk),
         IF stk[Len(stk)].kind = "evalForCollect" /\ stk[Len(stk)].inBody
           THEN stk[Len(stk)].oldScope ELSE sc)

\* an error leaves the statement at hand: Eval and EvalToRequests return
\* (nil, err), execute calls fatal
Fail(err, arena) ==
  /\ stack' = <<>>
  /\ scope' = UnwindScope(stack, scope)
  /\ scopes' = SubSeq(arena, 1, UnwindScope(stack, scope))
  /\ ret' = [state |-> "done",
             outcome |-> IF entry = "execute" THEN "fatal" ELSE "error",
             err |-> err, requests |-> <<>>]

\* the items of a loop: [ok, items]
itemsOf(iterable) ==
  CASE iterable.t = "list" -> [ok |-> TRUE, items |-> iterable.items]
    [] iterable.t = "int" ->
         IF iterable.n < 0 THEN [ok |-> FALSE, items |-> <<>>]
         ELSE [ok |-> TRUE, items |-> [k \in 1..iterable.n |-> IntV(k - 1)]]
    [] OTHER -> [ok |-> FALSE, items |-> <<>>]

(***************************************************************************)
(* Entry points                                                            *)
(***************************************************************************)
\* Evaluator.Eval and Evaluator.EvalToRequests, up to their statement loop
Eval ==
  /\ ret.state = "init" /\ entry \in {"Eval", "EvalToRequests"}
  /\ collectedRequests' = <<>>
  /\ stack' = <<Frame("Eval", program)>>
  /\ ret' = [ret EXCEPT !.state = "running"]
  /\ UNCHANGED <<lexVars, pureVars, lastResp, requestCount, program, entry, scope, scopes, prevResponse, requestCallback,
                 defaultTimeout, par, tasks, callbackLog, nextUid, encountered>>

\* execute of main.go, up to its statement loop
execute ==
  /\ ret.state = "init" /\ entry = "execute"
  /\ stack' = <<Frame("execute", program)>>
  /\ ret' = [ret EXCEPT !.state = "running"]
  /\ UNCHANGED <<lexVars, pureVars, lastResp, requestCount, program, entry, scope, scopes, prevResponse, requestCallback,
                 collectedRequests, defaultTimeout, par, tasks, callbackLog,
                 nextUid, encountered>>

\* the statement loop is over. Eval hands the collected requests to the
\* callback, if there is one, before it returns
EvalStatementsDone ==
  /\ Running /\ Top.kind = "Eval" /\ ~HasCur
  /\ IF entry = "Eval" /\ requestCallback /\ Len(collectedRequests) > 0
       THEN /\ stack' = <<Frame("EvalCallbacks", collectedRequests)>>
            /\ ret' = ret
       ELSE /\ stack' = <<>>
            /\ ret' = [state |-> "done", outcome |-> "ok", err |-> NoErr,
                       requests |-> collectedRequests]
  /\ UNCHANGED <<lexVars, pureVars, lastResp, requestCount, program, entry, scope, scopes, prevResponse, requestCallback,
                 collectedRequests, defaultTimeout, par, tasks, callbackLog,
                 nextUid, encountered>>

\* one turn of the loop "for _, req := range e.collectedRequests" of Eval
EvalCallbacks ==
  /\ Running /\ Top.kind = "EvalCallbacks"
  /\ \E r \in CallbackResults :
       /\ callbackLog' = Append(callbackLog, Cur)
       /\ lastResp' = IF r.err THEN lastResp ELSE r.resp
       /\ requestCount' = requestCount + 1
       /\ IF r.err
            THEN /\ stack' = <<>>
                 /\ ret' = [state |-> "done", outcome |-> "error",
                            err |-> Err("callback", Cur.uid),
                            requests |-> collectedRequests]
                 /\ prevResponse' = prevResponse
            ELSE /\ prevResponse' = r.resp
                 /\ IF Top.pc < Len(Top.stmts)
                      THEN /\ stack' = Advance(stack)
                           /\ ret' = ret
                      ELSE /\ stack' = <<>>
                           /\ ret' = [state |-> "done", outcome |-> "ok",
                                      err |-> NoErr,
                                      requests |-> collectedRequests]
  /\ UNCHANGED <<lexVars, pureVars, program, entry, scope, scopes, requestCallback,
                 collectedRequests, defaultTimeout, par, tasks, nextUid,
                 encountered>>

\* the statement loop of execute is over
executeDone ==
  /\ Running /\ Top.kind = "execute" /\ ~HasCur
  /\ stack' = <<>>
  /\ ret' = [state |-> "done", outcome |-> "ok", err |-> NoErr, requests |-> <<>>]
  /\ UNCHANGED <<lexVars, pureVars, lastResp, requestCount, program, entry, scope, scopes, prevResponse, requestCallback,
                 collectedRequests, defaultTimeout, par, tasks, callbackLog,
                 nextUid, encountered>>

(***************************************************************************)
(* Statements                                                              *)
(***************************************************************************)
\* the previous response is left as it was
chainResponseKeep(prev, resp) == prev

\* "if resp != nil { e.prevResponse = resp }" after a callback
chainResponse(prev, resp) == IF resp # NilResp THEN resp ELSE prev

\* evalStatementCollect, case *ast.RequestStmt
evalStatementCollectRequest ==
  /\ Running /\ HasCur /\ InCollect /\ Cur.Kind = "RequestStmt"
  /\ LET r == evalRequest(Cur, Env, nextUid)
     IN IF ~r.ok
          THEN /\ Fail(Err("timeout", nextUid), scopes)
               /\ UNCHANGED <<collectedRequests, prevResponse>>
          ELSE /\ collectedRequests' = Append(collectedRequests, r.req)
               /\ prevResponse' = MockResp(r.req)
               /\ stack' = Advance(stack)
               /\ UNCHANGED <<scope, scopes, ret>>
  /\ nextUid' = nextUid + 1
  /\ UNCHANGED <<lexVars, pureVars, lastResp, requestCount, program, entry, requestCallback, defaultTimeout, par, tasks,
                 callbackLog, encountered>>

\* execute, case *ast.RequestStmt: EvalRequest, then the callback at once
executeRequest ==
  /\ Running /\ HasCur /\ InExecute /\ Cur.Kind = "RequestStmt"
  /\ LET r == evalRequest(Cur, Env, nextUid)
     IN IF ~r.ok
          THEN /\ Fail(Err("timeout", nextUid), scopes)
               /\ UNCHANGED <<callbackLog, lastResp, requestCount, prevResponse>>
          ELSE IF requestCallback
            THEN \E c \in CallbackResults :
                   /\ callbackLog' = Append(callbackLog, r.req)
                   /\ lastResp' = IF c.err THEN lastResp ELSE c.resp
                   /\ requestCount' = requestCount + 1
                   /\ IF c.err
                        THEN /\ Fail(Err("callback", nextUid), scopes)
                             /\ prevResponse' = prevResponse
                        ELSE /\ prevResponse' = chainResponse(prevResponse, c.resp)
                             /\ stack' = Advance(stack)
                             /\ UNCHANGED <<scope, scopes, ret>>
            ELSE /\ stack' = Advance(stack)
                 /\ UNCHANGED <<scope, scopes, ret, callbackLog, lastResp, requestCount,
                                prevResponse>>
  /\ nextUid' = nextUid + 1
  /\ UNCHANGED <<lexVars, pureVars, program, entry, requestCallback, collectedRequests,
                 defaultTimeout, par, tasks, encountered>>

\* Evaluator.evalVarDef, reached from evalStatementCollect and from execute:
\* the value is stored in the current scope, and a value of "timeout" that
\* parseTimeout accepts becomes the default timeout
evalVarDef ==
  /\ Dispatchable /\ Cur.Kind = "VarDefStmt"
  /\ LET val == IF Cur.HasValue THEN evalExpr(Env, Cur.Value) ELSE NilV
         t == parseTimeout(val)
     IN /\ scopes' = [scopes EXCEPT ![scope].vars[Cur.Name] = val]
        /\ defaultTimeout' =
             IF Cur.HasValue /\ Cur.Name = "timeout" /\ t.ok THEN t.d
             ELSE defaultTimeout
  /\ stack' = Advance(stack)
  /\ UNCHANGED <<lexVars, pureVars, lastResp, requestCount, program, entry, ret, scope, prevResponse,
                 requestCallback, collectedRequests, par, tasks,
                 callbackLog, nextUid, encountered>>

\* case *ast.SeparatorStmt of evalStatementCollect and of execute
Separator ==
  /\ Dispatchable /\ Cur.Kind = "SeparatorStmt"
  /\ stack' = Advance(stack)
  /\ UNCHANGED <<lexVars, pureVars, lastResp, requestCount, program, entry, ret, scope, scopes, prevResponse,
                 requestCallback, collectedRequests, defaultTimeout, par, tasks,
                 callbackLog, nextUid, encountered>>

\* the body evalIf selects: the first branch whose condition is truthy,
\* else the Else body
\* the bodies of all branches whose condition is truthy, one after the other
RECURSIVE selectBodyAll(_, _, _)
selectBodyAll(env, branches, els) ==
  IF Len(branches) = 0 THEN <<>>
  ELSE (IF isTruthy(evalExpr(env, Head(branches).Condition))
          THEN Head(branches).Body ELSE <<>>)
       \o selectBodyAll(env, Tail(branches), els)

RECURSIVE selectBody(_, _, _)
selectBody(env, branches, els) ==
  IF Len(branches) = 0 THEN els
  ELSE IF isTruthy(evalExpr(env, Head(branches).Condition)) THEN Head(branches).Body
  ELSE selectBody(env, Tail(branches), els)

\* Evaluator.evalIf, up to the loop over the selected body
evalIf ==
  /\ Dispatchable /\ Cur.Kind = "IfStmt"
  /\ stack' = Append(stack, Frame("evalIf", selectBody(Env, Cur.Branches, Cur.Else)))
  /\ UNCHANGED <<lexVars, pureVars, lastResp, requestCount, program, entry, ret, scope, scopes, prevResponse,
                 requestCallback, collectedRequests, defaultTimeout, par, tasks,
                 callbackLog, nextUid, encountered>>

\* Evaluator.evalIf returns nil after the last statement of the body
evalIfReturn ==
  /\ Running /\ Top.kind = "evalIf" /\ ~HasCur
  /\ stack' = Advance(Pop(stack))
  /\ UNCHANGED <<lexVars, pureVars, lastResp, requestCount, program, entry, ret, scope, scopes, prevResponse,
                 requestCallback, collectedRequests, defaultTimeout, par, tasks,
                 callbackLog, nextUid, encountered>>

(***************************************************************************)
(* Sequential loops                                                        *)
(***************************************************************************)
\* Evaluator.evalForCollect up to the loop "for i, item := range items",
\* for a loop that is not parallel
evalForCollect ==
  /\ Dispatchable /\ Cur.Kind = "ForStmt" /\ ~Cur.Parallel
  /\ LET it == itemsOf(Cur.Iterable)
     IN IF ~it.ok
          THEN Fail(Err("iterable", Cur.Id), scopes)
          ELSE /\ stack' = Append(stack, [Frame("evalForCollect", Cur.Body)
                                           EXCEPT !.stmt = Cur, !.items = it.items,
                                                  !.entryScope = scope,
                                                  !.entryVars = Env.vars])
               /\ UNCHANGED <<scope, scopes, ret>>
  /\ UNCHANGED <<lexVars, pureVars, lastResp, requestCount, program, entry, prevResponse, requestCallback,
                 collectedRequests, defaultTimeout, par, tasks, callbackLog,
                 nextUid, encountered>>

\* loopScope without the index variable
loopScopeNoIndex(stmt, parent, idx, itm) ==
  [NewScope(parent) EXCEPT !.vars[stmt.ItemVar] = itm]

\* loopScope of iteration idx (0-based) over item itm
loopScopeOf(stmt, parent, idx, itm) ==
  LET a == [NewScope(parent) EXCEPT !.vars[stmt.ItemVar] = itm]
  IN IF stmt.IndexVar # "" THEN [a EXCEPT !.vars[stmt.IndexVar] = IntV(idx)] ELSE a

\* head of the sequential loop: the next iteration gets a fresh child scope
\* and the evaluator switches to it; after the last item the loop returns nil
evalForCollectIterate ==
  /\ Running /\ Top.kind = "evalForCollect" /\ ~Top.inBody
  /\ IF Top.iter < Len(Top.items)
       THEN /\ scopes' = Append(scopes, loopScopeOf(Top.stmt, scope, Top.iter,
                                                    Top.items[Top.iter + 1]))
            /\ scope' = Len(scopes) + 1
            /\ stack' = [stack EXCEPT ![Len(stack)].oldScope = scope,
                                      ![Len(stack)].inBody = TRUE,
                                      ![Len(stack)].pc = 1]
       ELSE /\ stack' = Advance(Pop(stack))
            /\ UNCHANGED <<scope, scopes>>
  /\ UNCHANGED <<lexVars, pureVars, lastResp, requestCount, program, entry, ret, prevResponse, requestCallback,
                 collectedRequests, defaultTimeout, par, tasks, callbackLog,
                 nextUid, encountered>>

\* end of one iteration: "e.scope = oldScope"
evalForCollectRestore ==
  /\ Running /\ Top.kind = "evalForCollect" /\ Top.inBody /\ ~HasCur
  /\ scope' = Top.oldScope
  /\ scopes' = SubSeq(scopes, 1, Top.oldScope)
  /\ stack' = [stack EXCEPT ![Len(stack)].inBody = FALSE,
                            ![Len(stack)].iter = @ + 1]
  /\ UNCHANGED <<lexVars, pureVars, lastResp, requestCount, program, entry, ret, prevResponse, requestCallback,
                 collectedRequests, defaultTimeout, par, tasks, callbackLog,
                 nextUid, encountered>>

\* the request is collected whether or not the callback ran
forRequestCollectedAlways(reqs, req, hasCallback) == Append(reqs, req)

\* the requests collected after a Request statement of a sequential loop:
\* "if e.requestCallback != nil {...} else { append }"
forRequestCollected(reqs, req, hasCallback) ==
  IF hasCallback THEN reqs ELSE Append(reqs, req)

\* a Request statement of the body of a sequential loop: with a callback it is
\* executed at once, without one it is collected
evalForCollectRequest ==
  /\ Running /\ Top.kind = "evalForCollect" /\ Top.inBody /\ HasCur
  /\ Cur.Kind = "RequestStmt"
  /\ LET r == evalRequest(Cur, Env, nextUid)
     IN IF ~r.ok
          THEN /\ Fail(Err("timeout", nextUid), scopes)
               /\ UNCHANGED <<callbackLog, lastResp, requestCount, prevResponse, collectedRequests>>
          ELSE IF requestCallback
            THEN \E c \in CallbackResults :
                   /\ callbackLog' = Append(callbackLog, r.req)
                   /\ lastResp' = IF c.err THEN lastResp ELSE c.resp
                   /\ requestCount' = requestCount + 1
                   /\ collectedRequests' = forRequestCollected(collectedRequests, r.req, TRUE)
                   /\ IF c.err
                        THEN /\ Fail(Err("callback", nextUid), scopes)
                             /\ prevResponse' = prevResponse
                        ELSE /\ prevResponse' = chainResponse(prevResponse, c.resp)
                             /\ stack' = Advance(stack)
                             /\ UNCHANGED <<scope, scopes, ret>>
            ELSE /\ collectedRequests' = forRequestCollected(collectedRequests, r.req, FALSE)
                 /\ prevResponse' = MockResp(r.req)
                 /\ stack' = Advance(stack)
                 /\ UNCHANGED <<scope, scopes, ret, callbackLog, lastResp, requestCount>>
  /\ nextUid' = nextUid + 1
  /\ UNCHANGED <<lexVars, pureVars, program, entry, requestCallback, defaultTimeout, par, tasks,
                 encountered>>

(***************************************************************************)
(* Parallel loops                                                          *)
(***************************************************************************)
\* "concurrency := stmt.Concurrency; if concurrency <= 0 { len(items) }"
concurrencyOf(stmt, items) ==
  IF stmt.Concurrency <= 0 THEN Len(items) ELSE stmt.Concurrency

\* the Request statements among the first n statements of a loop body
RECURSIVE CountRequests(_, _)
CountRequests(body, n) ==
  IF n = 0 THEN 0
  ELSE CountRequests(body, n - 1) + (IF body[n].Kind = "RequestStmt" THEN 1 ELSE 0)

NoTask ==
  [pc |-> "acquire", j |-> 1, iterRequests |-> <<>>, req |-> NoReq,
   vars |-> [v \in VarNames |-> Unset], prevResponse |-> NilResp,
   defaultTimeout |-> 0, count |-> 0]

\* the locals of a parallel loop before its goroutines are started, and one
\* goroutine per item, each about to acquire the semaphore
startParallel(fn, stmt, items) ==
  /\ par' = [NoPar EXCEPT !.fn = fn, !.stmt = stmt, !.items = items,
                          !.concurrency = concurrencyOf(stmt, items),
                          !.wg = Len(items), !.stats.Total = Len(items),
                          !.baseUid = nextUid]
  /\ tasks' = [t \in 1..Len(items) |-> NoTask]
  /\ nextUid' = nextUid + Len(items) * CountRequests(stmt.Body, Len(stmt.Body))

\* Evaluator.evalForCollect for a parallel loop, into evalParallelFor, up to
\* wg.Wait()
evalParallelFor ==
  /\ Dispatchable /\ InCollect /\ Cur.Kind = "ForStmt" /\ Cur.Parallel
  /\ LET it == itemsOf(Cur.Iterable)
     IN IF ~it.ok
          THEN /\ Fail(Err("iterable", Cur.Id), scopes)
               /\ UNCHANGED <<par, tasks, nextUid, encountered>>
          ELSE /\ encountered' = Append(encountered, Cur.Id)
               /\ IF Len(it.items) = 0
                    THEN /\ stack' = Advance(stack)
                         /\ UNCHANGED <<par, tasks, nextUid>>
                    ELSE /\ startParallel("evalParallelFor", Cur, it.items)
                         /\ stack' = stack
               /\ UNCHANGED <<scope, scopes, ret>>
  /\ UNCHANGED <<lexVars, pureVars, lastResp, requestCount, program, entry, prevResponse, requestCallback,
                 collectedRequests, defaultTimeout, callbackLog>>

\* Evaluator.EvalParallelForWithOutput, called by execute for a parallel loop
\* at the top level, up to wg.Wait()
EvalParallelForWithOutput ==
  /\ Dispatchable /\ InExecute /\ Cur.Kind = "ForStmt" /\ Cur.Parallel
  /\ LET it == itemsOf(Cur.Iterable)
     IN IF ~it.ok
          THEN /\ Fail(Err("iterable", Cur.Id), scopes)
               /\ UNCHANGED <<par, tasks, nextUid, encountered>>
          ELSE /\ encountered' = Append(encountered, Cur.Id)
               /\ IF Len(it.items) = 0
                    THEN /\ stack' = Advance(stack)
                         /\ UNCHANGED <<par, tasks, nextUid>>
                    ELSE /\ startParallel("EvalParallelForWithOutput", Cur, it.items)
                         /\ stack' = stack
               /\ UNCHANGED <<scope, scopes, ret>>
  /\ UNCHANGED <<lexVars, pureVars, lastResp, requestCount, program, entry, prevResponse, requestCallback,
                 collectedRequests, defaultTimeout, callbackLog>>

\* "sem <- struct{}{}" can proceed: the channel buffer has room
semHasRoomAlways(p) == TRUE

semHasRoom(p) == p.sem < p.concurrency

\* the pc of a goroutine that is about to handle body statement j
bodyPc(stmt, j) == IF j > Len(stmt.Body) THEN "record" ELSE "body"

\* tempEval built without the previous response of the parent
tempEvalNoPrev(loopScope, e) ==
  [vars |-> [v \in VarNames |->
               IF loopScope.vars[v] # Unset THEN loopScope.vars[v] ELSE e.vars[v]],
   prevResponse |-> NilResp, defaultTimeout |-> e.defaultTimeout]

\* "tempEval := &Evaluator{scope: loopScope, prevResponse: e.prevResponse,
\* ..., defaultTimeout: e.defaultTimeout}", as the view evalRequest reads;
\* e is the view of the parent
tempEval(loopScope, e) ==
  [vars |-> [v \in VarNames |->
               IF loopScope.vars[v] # Unset THEN loopScope.vars[v] ELSE e.vars[v]],
   prevResponse |-> e.prevResponse, defaultTimeout |-> e.defaultTimeout]

\* the goroutine of item t acquires the semaphore, then builds loopScope and
\* tempEval
Acquire(t) ==
  /\ par.fn # "none" /\ tasks[t].pc = "acquire"
  /\ semHasRoom(par)
  /\ par' = [par EXCEPT !.sem = @ + 1]
  /\ LET ls == loopScopeOf(par.stmt, scope, t - 1, par.items[t])
         te == tempEval(ls, Env)
     IN tasks' = [tasks EXCEPT
          ![t].pc = bodyPc(par.stmt, 1),
          ![t].vars = te.vars,
          ![t].prevResponse = te.prevResponse,
          ![t].defaultTimeout = te.defaultTimeout]
  /\ UNCHANGED <<lexVars, pureVars, lastResp, requestCount, program, entry, stack, ret, scope, scopes, prevResponse,
                 requestCallback, collectedRequests, defaultTimeout,
                 callbackLog, nextUid, encountered>>

taskEnv(t) ==
  [vars |-> tasks[t].vars, prevResponse |-> tasks[t].prevResponse,
   defaultTimeout |-> tasks[t].defaultTimeout]

\* the uid of the descriptor of body statement j of the goroutine of item t
uidOf(t, j) ==
  par.baseUid + (t - 1) * CountRequests(par.stmt.Body, Len(par.stmt.Body))
    + CountRequests(par.stmt.Body, j - 1)

taskUid(t) == uidOf(t, tasks[t].j)

\* the critical section of a failed goroutine: record the error, count it
recordFailure(p, e) ==
  [p EXCEPT !.errors = Append(@, e), !.stats.Failed = @ + 1]

\* one body statement in a goroutine: a Request is synthesized by tempEval,
\* any other statement is passed over; a goroutine that goes on to call the
\* callback has loaded the counter of "requestCount++" at the end of this step
TaskBody(t) ==
  /\ par.fn # "none" /\ tasks[t].pc = "body"
  /\ LET s == par.stmt.Body[tasks[t].j]
         r == evalRequest(s, taskEnv(t), taskUid(t))
     IN IF s.Kind # "RequestStmt"
          THEN /\ tasks' = [tasks EXCEPT ![t].j = @ + 1,
                                         ![t].pc = bodyPc(par.stmt, tasks[t].j + 1)]
               /\ par' = par
          ELSE IF ~r.ok
            THEN /\ par' = recordFailure(par, Err("timeout", t))
                 /\ tasks' = [tasks EXCEPT ![t].pc = "release"]
          ELSE IF par.fn = "evalParallelFor"
            THEN /\ tasks' = [tasks EXCEPT
                      ![t].iterRequests = Append(@, r.req),
                      ![t].j = @ + 1,
                      ![t].pc = bodyPc(par.stmt, tasks[t].j + 1)]
                 /\ par' = par
          ELSE IF requestCallback
            THEN /\ tasks' = [tasks EXCEPT ![t].req = r.req, ![t].pc = "callback",
                                           ![t].count = requestCount]
                 /\ par' = par
            ELSE /\ tasks' = [tasks EXCEPT ![t].j = @ + 1,
                                           ![t].pc = bodyPc(par.stmt, tasks[t].j + 1)]
                 /\ par' = par
  /\ UNCHANGED <<lexVars, pureVars, lastResp, requestCount, program, entry, stack, ret, scope, scopes, prevResponse,
                 requestCallback, collectedRequests, defaultTimeout,
                 callbackLog, nextUid, encountered>>

\* "_, err := e.requestCallback(req)" in a goroutine of
\* EvalParallelForWithOutput, after the load of "requestCount++": the store
\* of "requestCount++", request.Do, "lastResp = resp", with no lock held;
\* then the goroutine records a failure under the lock or goes on with the
\* body
TaskCallback(t) ==
  /\ par.fn # "none" /\ tasks[t].pc = "callback"
  /\ callbackLog' = Append(callbackLog, tasks[t].req)
  /\ requestCount' = tasks[t].count + 1
  /\ \E c \in CallbackResults :
       IF c.err
         THEN /\ par' = recordFailure(par, Err("callback", t))
              /\ tasks' = [tasks EXCEPT ![t].pc = "release"]
              /\ lastResp' = lastResp
         ELSE /\ par' = par
              /\ lastResp' = c.resp
              /\ tasks' = [tasks EXCEPT ![t].j = @ + 1,
                                        ![t].pc = bodyPc(par.stmt, tasks[t].j + 1)]
  /\ UNCHANGED <<lexVars, pureVars, program, entry, stack, ret, scope, scopes, prevResponse,
                 requestCallback, collectedRequests, defaultTimeout, nextUid,
                 encountered>>

\* the requests of the goroutine replace those recorded so far
recordSuccessOverwrite(p, iterRequests) ==
  IF p.fn = "evalParallelFor"
    THEN [p EXCEPT !.parallelRequests = iterRequests,
                   !.times = @ + 1,
                   !.stats.Success = IF Len(p.errors) = 0 THEN @ + 1 ELSE @]
    ELSE [p EXCEPT !.times = @ + 1, !.stats.Success = @ + 1]

\* the writes of the critical section at the end of a goroutine
recordSuccess(p, iterRequests) ==
  IF p.fn = "evalParallelFor"
    THEN [p EXCEPT !.parallelRequests = @ \o iterRequests,
                   !.times = @ + 1,
                   !.stats.Success = IF Len(p.errors) = 0 THEN @ + 1 ELSE @]
    ELSE [p EXCEPT !.times = @ + 1, !.stats.Success = @ + 1]

\* the critical section at the end of a goroutine that did not fail
TaskRecord(t) ==
  /\ par.fn # "none" /\ tasks[t].pc = "record"
  /\ par' = recordSuccess(par, tasks[t].iterRequests)
  /\ tasks' = [tasks EXCEPT ![t].pc = "release"]
  /\ UNCHANGED <<lexVars, pureVars, lastResp, requestCount, program, entry, stack, ret, scope, scopes, prevResponse,
                 requestCallback, collectedRequests, defaultTimeout,
                 callbackLog, nextUid, encountered>>

\* the goroutine ends and keeps its slot of the gate
releaseSlotKept(p) == [p EXCEPT !.wg = @ - 1]

\* "defer func() { <-sem }()" after "defer wg.Done()": the slot is given
\* back, the wait group is counted down
releaseSlot(p) == [p EXCEPT !.sem = @ - 1, !.wg = @ - 1]

\* the deferred calls of a goroutine: "<-sem", then wg.Done()
TaskRelease(t) ==
  /\ par.fn # "none" /\ tasks[t].pc = "release"
  /\ par' = releaseSlot(par)
  /\ tasks' = [tasks EXCEPT ![t].pc = "done"]
  /\ UNCHANGED <<lexVars, pureVars, lastResp, requestCount, program, entry, stack, ret, scope, scopes, prevResponse,
                 requestCallback, collectedRequests, defaultTimeout,
                 callbackLog, nextUid, encountered>>

\* wg.Wait() returns at once
waitReturnsAlways(p) == TRUE

\* wg.Wait() returns
waitReturns(p) == p.wg = 0

\* e.scope.Set("_parallel_stats_list", ...): the list found through the scope
\* chain plus the new entry, stored in the current scope
setStatsList(arena, sc, statsMap) ==
  LET existing == GetStatsList(arena, sc)
  IN [arena EXCEPT ![sc].hasStats = TRUE,
                   ![sc].stats = IF existing.ok THEN Append(existing.list, statsMap)
                                 ELSE <<statsMap>>]

\* after wg.Wait(): the statistics, the collected requests, the aggregate
\* error
Join ==
  /\ par.fn # "none" /\ waitReturns(par)
  /\ LET statsMap == [loop |-> par.stmt.Id, total |-> par.stats.Total,
                      success |-> par.stats.Success, failed |-> par.stats.Failed]
         arena == setStatsList(scopes, scope, statsMap)
     IN /\ collectedRequests' =
             IF par.fn = "evalParallelFor" /\ ~requestCallback
               THEN collectedRequests \o par.parallelRequests
               ELSE collectedRequests
        /\ IF Len(par.errors) > 0
             THEN Fail(ParallelErr(par.errors), arena)
             ELSE /\ scopes' = arena
                  /\ stack' = Advance(stack)
                  /\ UNCHANGED <<scope, ret>>
  /\ par' = NoPar
  /\ tasks' = <<>>
  /\ UNCHANGED <<lexVars, pureVars, lastResp, requestCount, program, entry, prevResponse, requestCallback, defaultTimeout,
                 callbackLog, nextUid, encountered>>

(***************************************************************************)
(* The programs and the runs of the model                                  *)
(***************************************************************************)
\* the items of the lists: an integer, and a string that is no timeout
ItemValues == {IntV(5), StrV("v")}

Iterables ==
  {ListV(xs) : xs \in UNION {[1..n -> ItemValues] : n \in 0..MaxItems}}
    \cup {IntV(n) : n \in (-1)..MaxItems}

Concurrencies == (-1)..MaxConcurrency

Branch(cond, body) == [Condition |-> cond, Body |-> body]

\* three requests chained by separators, the last two with "Bearer $_.token"
ChainProgram ==
  << RequestStmt(1, <<>>, FALSE, ""), SeparatorStmt,
     RequestStmt(2, <<>>, TRUE, ""), SeparatorStmt,
     RequestStmt(3, <<>>, TRUE, "") >>

\* a request, "for $i, $x in <it>" around one request, a request
SeqLoopProgram(it) ==
  << RequestStmt(1, <<>>, FALSE, ""),
     ForStmt(10, FALSE, 0, "i", "x", it, <<RequestStmt(2, <<"x", "i">>, TRUE, "x")>>),
     RequestStmt(3, <<>>, TRUE, "") >>

\* "for $x in <it>" around a conditional with a request and a second request
SeqLoopIfProgram(it) ==
  << ForStmt(10, FALSE, 0, "", "x", it,
       << IfStmt(<<Branch(BoolV(TRUE), <<RequestStmt(1, <<"x">>, FALSE, "")>>)>>, <<>>),
          RequestStmt(2, <<"x", "i">>, TRUE, "") >>),
     RequestStmt(3, <<>>, FALSE, "") >>

\* "parallel <c> for $i, $x in <it>" around one request, then a request
ParLoopProgram(it, c) ==
  << ForStmt(20, TRUE, c, "i", "x", it, <<RequestStmt(1, <<"x", "i">>, TRUE, "x")>>),
     RequestStmt(2, <<>>, TRUE, "") >>

\* a parallel loop in the body of a sequential loop of two iterations
NestedParProgram(it, c) ==
  << ForStmt(10, FALSE, 0, "", "i", IntV(2),
       << ForStmt(20, TRUE, c, "", "x", it, <<RequestStmt(1, <<"x", "i">>, FALSE, "x")>>) >>) >>

\* a parallel loop in the second branch of a conditional
CondParProgram(it, c) ==
  << IfStmt(<< Branch(BoolV(FALSE), <<RequestStmt(4, <<>>, FALSE, "")>>),
               Branch(IntV(1),
                 << RequestStmt(1, <<>>, FALSE, ""),
                    ForStmt(20, TRUE, c, "", "x", it, <<RequestStmt(5, <<"x">>, FALSE, "")>>) >>) >>,
            <<RequestStmt(3, <<>>, FALSE, "")>>),
     RequestStmt(2, <<>>, TRUE, "") >>

\* the values "@x" is given in front of a conditional
CondValues == {IntV(0), IntV(3), IntV(7), StrV("v"), NilV}

\* "@x <v>", then "? $x > 5 ... : $x > 0 ... : ..." with one request in each
\* body (the else body only when withElse), then a request
CondProgram(v, withElse) ==
  << VarDefStmt("x", v),
     IfStmt(<< Branch(BinaryExpr(">", "x", 5), <<RequestStmt(11, <<>>, FALSE, "")>>),
               Branch(BinaryExpr(">", "x", 0), <<RequestStmt(12, <<>>, FALSE, "")>>) >>,
            IF withElse THEN <<RequestStmt(13, <<>>, FALSE, "")>> ELSE <<>>),
     RequestStmt(14, <<>>, FALSE, "") >>

CondPrograms == {CondProgram(v, e) : v \in CondValues, e \in BOOLEAN}

\* the values of a global "@timeout" line: integers, the quoted strings
\* "5ms" and "v", and no line at all (Unset)
GlobalTimeouts ==
  {Unset, IntV(10), IntV(0), IntV(-1), Text(<<"5", "m", "s">>), StrV("v")}

\* the expressions of a request's timeout line: "timeout 60", "timeout 2m"
RequestTimeouts == {IntV(60), Unquoted(<<"2", "m">>)}

TimeoutDef(g) == IF g = Unset THEN <<>> ELSE <<VarDefStmt("timeout", g)>>

\* "@timeout <g1>", a request, a request with its own timeout line, a
\* request, "@timeout <g2>", a request
TimeoutProgram(g1, r, g2) ==
  TimeoutDef(g1)
    \o << RequestStmt(21, <<>>, FALSE, ""), RequestTimeoutStmt(22, r),
          RequestStmt(23, <<>>, FALSE, "") >>
    \o TimeoutDef(g2)
    \o << RequestStmt(24, <<>>, FALSE, "") >>

TimeoutPrograms ==
  {TimeoutProgram(g1, r, g2) :
     g1 \in GlobalTimeouts, r \in RequestTimeouts, g2 \in GlobalTimeouts}

\* two parallel loops one after the other
TwoParProgram(it, c) ==
  << ForStmt(20, TRUE, c, "", "x", it, <<RequestStmt(1, <<"x">>, FALSE, "x")>>),
     ForStmt(21, TRUE, 0, "", "x", IntV(2), <<RequestStmt(2, <<"x">>, FALSE, "")>>) >>

\* "parallel <c> for $x in <it>" around "@i 3" and a request whose URL
\* holds $x and $i
ParVarDefProgram(it, c) ==
  << ForStmt(20, TRUE, c, "", "x", it,
       << VarDefStmt("i", IntV(3)), RequestStmt(1, <<"x", "i">>, FALSE, "") >>) >>

\* a request, a parallel loop whose request holds "Bearer $_.token", then a
\* request that holds it too
PrevParProgram(it, c) ==
  << RequestStmt(1, <<>>, FALSE, ""),
     ForStmt(20, TRUE, c, "", "x", it, <<RequestStmt(2, <<"x">>, TRUE, "")>>),
     RequestStmt(3, <<>>, TRUE, "") >>

\* "for $x in <it>" around "@i 3" and a request with the timeout $x, then a
\* request whose URL holds $x and $i
SeqDefProgram(it) ==
  << ForStmt(10, FALSE, 0, "", "x", it,
       << VarDefStmt("i", IntV(3)), RequestStmt(1, <<"x", "i">>, FALSE, "x") >>),
     RequestStmt(2, <<"x", "i">>, FALSE, "") >>

Programs(it, c) ==
  { ChainProgram, SeqDefProgram(it), SeqLoopProgram(it), SeqLoopIfProgram(it), ParLoopProgram(it, c),
    NestedParProgram(it, c), CondParProgram(it, c), TwoParProgram(it, c),
    ParVarDefProgram(it, c), PrevParProgram(it, c) }
    \cup CondPrograms \cup TimeoutPrograms

\* entry point and whether a request callback is configured
Runs ==
  { [entry |-> "Eval", requestCallback |-> FALSE],
    [entry |-> "Eval", requestCallback |-> TRUE],
    [entry |-> "EvalToRequests", requestCallback |-> FALSE],
    [entry |-> "execute", requestCallback |-> TRUE] }

\* the lexer is not running
LexerIdle ==
  /\ input = <<>> /\ pos = 0 /\ readPos = 0 /\ ch = NUL
  /\ indentStack = <<0>> /\ pendingTokens = <<>> /\ atLineStart = FALSE
  /\ tokens = <<>> /\ lexDone = TRUE

\* no function call is being observed
NoCall == callArg = <<>> /\ callResult = <<>>

\* NewEvaluator
NewEvaluator ==
  /\ scope = 1
  /\ scopes = <<NewScope(0)>>
  /\ prevResponse = NilResp
  /\ collectedRequests = <<>>
  /\ defaultTimeout = 30 * Second

\* no program is being evaluated
EvaluatorIdle ==
  /\ program = <<>> /\ entry = "none" /\ requestCallback = FALSE
  /\ NewEvaluator
  /\ stack = <<>>
  /\ ret = [state |-> "idle", outcome |-> "none", err |-> NoErr, requests |-> <<>>]
  /\ par = NoPar /\ tasks = <<>> /\ callbackLog = <<>> /\ lastResp = NilResp
  /\ requestCount = 0
  /\ nextUid = 1 /\ encountered = <<>>

(***************************************************************************)
(* The parser's two ways to read a timeout value                           *)
(***************************************************************************)
\* Lexer.NextToken within a line, with the literal of the token
TokenWithLiteral(l) ==
  LET a == skipSpaces(l)
      r == scanToken(a)
  IN [tok |-> r.tok, lit |-> SubSeq(a.input, a.pos + 1, r.l.pos), l |-> r.l]

\* the lexer on the text that follows "@timeout " or "timeout "
ValueLexer(text) == [New(text) EXCEPT !.atLineStart = FALSE]

\* ParserV2.parsePrimary on the current token
parsePrimary(cur) ==
  CASE cur.tok = "INT" -> IntV(ParseInt(cur.lit).n)
    [] cur.tok = "FLOAT" -> FloatV(ParseFloat(cur.lit))
    [] cur.tok = "IDENT" -> Unquoted(cur.lit)
    [] OTHER -> NilV

\* ParserV2.parseVarDefStmt for a value on the same line: parseExpression
\* reads one primary, and Parse skips the tokens left on the line
parseVarDefValue(text) == parsePrimary(TokenWithLiteral(ValueLexer(text)))

\* ParserV2.parseTimeoutExpression: a number followed by an identifier is
\* joined into one unquoted string literal
parseTimeoutExpression(text) ==
  LET cur == TokenWithLiteral(ValueLexer(text))
      peek == TokenWithLiteral(cur.l)
  IN IF cur.tok \in {"INT", "FLOAT"} /\ peek.tok = "IDENT"
       THEN Unquoted(cur.lit \o peek.lit)
       ELSE parsePrimary(cur)

\* an evaluator fresh from NewEvaluator, as evalExpr sees it
FreshEnv ==
  [vars |-> [v \in VarNames |-> Unset], prevResponse |-> NilResp,
   defaultTimeout |-> 30 * Second]

\* the default timeout after "@timeout <text>" on a fresh evaluator
globalTimeoutOf(text) ==
  LET t == parseTimeout(evalExpr(FreshEnv, parseVarDefValue(text)))
  IN IF t.ok THEN t.d ELSE FreshEnv.defaultTimeout

\* the timeout entry of the descriptor of a request with the line
\* "timeout <text>": [ok, d]
requestTimeoutOf(text) ==
  parseTimeout(evalExpr(FreshEnv, parseTimeoutExpression(text)))

\* the numerals and the unit suffixes of the timeout texts
Numerals ==
  UNION {[1..n -> {"0", "2", "3", "5"}] : n \in 1..MaxDigits}

TimeoutUnits == {<<"s">>, <<"m", "s">>, <<"m">>, <<"s", "e", "c">>, <<"m", "i", "n">>}

TimeoutTexts == {num \o unit : num \in Numerals, unit \in TimeoutUnits}

InitTimeout ==
  /\ LexerIdle /\ EvaluatorIdle
  /\ callArg \in TimeoutTexts
  /\ callResult = <<>>

\* the same literal read as a global definition and as a request's timeout
ReadTimeout ==
  /\ callResult = <<>>
  /\ callResult' = <<[global |-> globalTimeoutOf(callArg),
                      request |-> requestTimeoutOf(callArg)]>>
  /\ UNCHANGED <<lexVars, evalVars, callArg>>

SpecTimeout == InitTimeout /\ [][ReadTimeout]_vars

(***************************************************************************)
(* Interpolation of a quoted string                                        *)
(***************************************************************************)
\* the pieces the quoted strings of the model are made of: plain text, paths
\* under the variables x and y, and paths under the previous response
Pieces ==
  { <<"a">>, <<" ">>, <<"$">>, <<".">>,
    <<"$", "x">>, <<"$", "y">>, <<"$", "x", ".", "a">>, <<"$", "x", ".", "b">>,
    <<"$", "x", ".", "0">>, <<"$", "x", ".", "1">>, <<"$", "x", ".", "a", ".", "b">>,
    <<"$", "_">>, <<"$", "_", ".", "t", "o", "k", "e", "n">>, <<"$", "_", ".", "a">> }

RECURSIVE PieceTexts(_)
PieceTexts(n) ==
  IF n = 0 THEN {<<>>}
  ELSE PieceTexts(n - 1) \cup {t \o pc : t \in PieceTexts(n - 1), pc \in Pieces}

\* the values the variable x is bound to (Unset: not defined)
BoundValues ==
  { Unset, IntV(5), Text(<<"a", "b">>),
    MapV(<<[key |-> <<"a">>, val |-> IntV(5)]>>),
    ListV(<<IntV(5)>>) }

\* an evaluator in which x is bound (or not) and a previous response is
\* present (or not)
InitInterpolate ==
  /\ LexerIdle
  /\ program = <<>> /\ entry = "none" /\ requestCallback = FALSE
  /\ scope = 1
  /\ \E v \in BoundValues : scopes = <<[NewScope(0) EXCEPT !.vars["x"] = v]>>
  /\ prevResponse \in {NilResp, Resp("abc"), Resp(NoToken)}
  /\ collectedRequests = <<>>
  /\ defaultTimeout = 30 * Second
  /\ stack = <<>>
  /\ ret = [state |-> "idle", outcome |-> "none", err |-> NoErr, requests |-> <<>>]
  /\ par = NoPar /\ tasks = <<>> /\ callbackLog = <<>> /\ lastResp = NilResp
  /\ requestCount = 0
  /\ nextUid = 1 /\ encountered = <<>>
  /\ callArg \in PieceTexts(MaxPieces)
  /\ callResult = <<>>

\* evalExpr on a quoted ast.StringLiteral
Interpolate ==
  /\ callResult = <<>>
  /\ callResult' = <<evalExpr(Env, Quoted(callArg)).items>>
  /\ UNCHANGED <<lexVars, evalVars, callArg>>

SpecInterpolate == InitInterpolate /\ [][Interpolate]_vars

(***************************************************************************)
(* Type inference on scalar text                                           *)
(***************************************************************************)
\* the bytes the scalar texts are made of
ScalarBytes == {"0", "1", "5", "-", "+", ".", "n", "a", "i", "f", "N", "I"}

\* the scalars of the type inference table and of the keyword spellings
ScalarWords ==
  { <<"t", "r", "u", "e">>, <<"f", "a", "l", "s", "e">>, <<"n", "u", "l", "l">>,
    <<"n", "i", "l">>, <<"_">>, <<"J", "o", "h", "n">>, <<"2", "5">>,
    <<"9", "8", ".", "5">>, <<"T", "r", "u", "e">>, <<"N", "u", "l", "l">>,
    <<"J", "o", "h", "n", " ", "S", "m", "i", "t", "h">>,
    <<"i", "n", "f", "i", "n", "i", "t", "y">>, <<"-", "1", ".", "5">> }

ScalarTexts ==
  ScalarWords \cup UNION {[1..n -> ScalarBytes] : n \in 0..MaxChars}

InitInfer ==
  /\ LexerIdle /\ EvaluatorIdle
  /\ callArg \in ScalarTexts
  /\ callResult = <<>>

\* evalExpr on an ast.StringLiteral with the same text, unquoted and quoted
Infer ==
  /\ callResult = <<>>
  /\ callResult' = <<[unquoted |-> evalExpr(Env, Unquoted(callArg)),
                      quoted |-> evalExpr(Env, Quoted(callArg))]>>
  /\ UNCHANGED <<lexVars, evalVars, callArg>>

SpecInfer == InitInfer /\ [][Infer]_vars

(***************************************************************************)
(* Blocks: lists and mappings                                              *)
(***************************************************************************)
\* the keys of the entries: none, or one of two names
EntryKeys == {<<>>, <<"a">>, <<"b">>}

\* the scalar values of the entries: none, a word, a number, null
EntryScalars ==
  {NoExpr, Unquoted(<<"a", "p", "i">>), IntV(100), Unquoted(<<"n", "u", "l", "l">>)}

\* the nested blocks of the entries: empty, list-shaped, mapping-shaped
NestedBlocks ==
  { BlockExpr(<<>>),
    BlockExpr(<<Entry(<<>>, Unquoted(<<"a", "p", "i">>)), Entry(<<>>, IntV(100))>>),
    BlockExpr(<<Entry(<<"a">>, IntV(100))>>),
    BlockExpr(<<Entry(<<"a">>, NoExpr), Entry(<<>>, IntV(100))>>) }

Entries == {Entry(k, v) : k \in EntryKeys, v \in EntryScalars \cup NestedBlocks}

Blocks == {BlockExpr(es) : es \in UNION {[1..n -> Entries] : n \in 0..MaxEntries}}

InitBlock ==
  /\ LexerIdle /\ EvaluatorIdle
  /\ \E b \in Blocks : callArg = <<b>>
  /\ callResult = <<>>

\* evalExpr on an ast.BlockExpr
EvalBlock ==
  /\ callResult = <<>>
  /\ callResult' = <<evalExpr(Env, callArg[1])>>
  /\ UNCHANGED <<lexVars, evalVars, callArg>>

SpecBlock == InitBlock /\ [][EvalBlock]_vars

(***************************************************************************)
(* ParserV2: from the token stream to the statement list                   *)
(***************************************************************************)
\* the element of a one-element set; {f(r) : r \in {e}} computes e once
Only(S) == CHOOSE x \in S : TRUE

\* a token: its type, and in place of line and column the position of the
\* source statement it belongs to
T(type, at) == [Type |-> type, Pos |-> at]

\* the ParserV2 struct: the token stream of the lexer, the index of curToken
\* in it, the number of errors
NewV2(toks) == [toks |-> toks, i |-> 1, errors |-> 0]

\* curToken; the lexer goes on returning EOF at the end
curToken(p) == IF p.i > Len(p.toks) THEN T("EOF", 0) ELSE p.toks[p.i]

peekToken(p) == IF p.i + 1 > Len(p.toks) THEN T("EOF", 0) ELSE p.toks[p.i + 1]

curTokenIs(p, t) == curToken(p).Type = t

peekTokenIs(p, t) == peekToken(p).Type = t

nextToken(p) == [p EXCEPT !.i = @ + 1]

addError(p) == [p EXCEPT !.errors = @ + 1]

\* a statement of the AST: its kind, its Position, the Body of a ForStmt,
\* the bodies of the Branches of an IfStmt and its Else
Node(kind, at, body, branches, else) ==
  [Kind |-> kind, Pos |-> at, Body |-> body, Branches |-> branches, Else |-> else]

\* the nil statement
NilStmt == Node("nil", 0, <<>>, <<>>, <<>>)

\* what a parse function leaves: the parser and the statement it returns
Parsed(p, stmt) == [p |-> p, stmt |-> stmt]

\* "for p.curTokenIs(NEWLINE) || p.curTokenIs(COMMENT) { p.nextToken() }"
RECURSIVE skipBlank(_)
skipBlank(p) ==
  IF curTokenIs(p, "NEWLINE") \/ curTokenIs(p, "COMMENT")
    THEN skipBlank(nextToken(p)) ELSE p

\* "for !p.curTokenIs(NEWLINE) && !p.curTokenIs(EOF) { p.nextToken() }"
RECURSIVE skipToNewline(_)
skipToNewline(p) ==
  IF ~curTokenIs(p, "NEWLINE") /\ ~curTokenIs(p, "EOF")
    THEN skipToNewline(nextToken(p)) ELSE p

\* "for p.curTokenIs(NEWLINE) { p.nextToken() }"
RECURSIVE skipNewlines(_)
skipNewlines(p) == IF curTokenIs(p, "NEWLINE") THEN skipNewlines(nextToken(p)) ELSE p

\* the skip after a timeout value, which also stops at DEDENT
RECURSIVE skipToNewlineOrDedent(_)
skipToNewlineOrDedent(p) ==
  IF ~curTokenIs(p, "NEWLINE") /\ ~curTokenIs(p, "EOF") /\ ~curTokenIs(p, "DEDENT")
    THEN skipToNewlineOrDedent(nextToken(p)) ELSE p

\* the path of parseVarRef: ".field" while a DOT follows
RECURSIVE parseVarRefPath(_)
parseVarRefPath(p) ==
  IF peekTokenIs(p, "DOT")
    THEN LET q == nextToken(nextToken(p))
         IN IF curTokenIs(q, "IDENT") \/ curTokenIs(q, "INT")
              THEN parseVarRefPath(q) ELSE q
    ELSE p

parseVarRef(p) ==
  LET q == nextToken(p)
  IN IF ~curTokenIs(q, "IDENT") /\ ~curTokenIs(q, "UNDERSCORE")
       THEN addError(q)
       ELSE parseVarRefPath(q)

\* parsePrimary, by where it leaves curToken: on the literal, or at the end
\* of the variable reference
parsePrimaryAt(p) == IF curTokenIs(p, "DOLLAR") THEN parseVarRef(p) ELSE p

\* parseExpression, by where it leaves curToken: on the last token of the
\* expression
RECURSIVE parseExpressionLoop(_)
parseExpressionLoop(p) ==
  IF peekTokenIs(p, "PLUS")
    THEN parseExpressionLoop(parsePrimaryAt(nextToken(nextToken(p))))
    ELSE p

parseExpressionAt(p) == parseExpressionLoop(parsePrimaryAt(p))

\* parseTimeoutExpression, by where it leaves curToken
parseTimeoutExpressionAt(p) ==
  IF (curTokenIs(p, "INT") \/ curTokenIs(p, "FLOAT")) /\ peekTokenIs(p, "IDENT")
    THEN nextToken(p)
    ELSE parseExpressionAt(p)

\* parseConditionPrimary advances past the expression
RECURSIVE parseUnary(_)
parseUnary(p) ==
  IF curTokenIs(p, "NOT") THEN parseUnary(nextToken(p))
  ELSE nextToken(parseExpressionAt(p))

CompareOps == {"EQ", "NE", "GT", "LT", "GTE", "LTE"}

RECURSIVE parseComparisonLoop(_)
parseComparisonLoop(p) ==
  IF curToken(p).Type \in CompareOps
    THEN parseComparisonLoop(parseUnary(nextToken(p))) ELSE p

parseComparison(p) == parseComparisonLoop(parseUnary(p))

RECURSIVE parseLogicalAndLoop(_)
parseLogicalAndLoop(p) ==
  IF curTokenIs(p, "AND")
    THEN parseLogicalAndLoop(parseComparison(nextToken(p))) ELSE p

parseLogicalAnd(p) == parseLogicalAndLoop(parseComparison(p))

RECURSIVE parseLogicalOrLoop(_)
parseLogicalOrLoop(p) ==
  IF curTokenIs(p, "OR")
    THEN parseLogicalOrLoop(parseLogicalAnd(nextToken(p))) ELSE p

parseConditionExpression(p) == parseLogicalOrLoop(parseLogicalAnd(p))

\* parseBlockExpr and parseEntry, by where they leave curToken: the entries
\* themselves are not kept
RECURSIVE parseBlockExprLoop(_)
RECURSIVE parseEntry(_)
parseBlockExpr(p) == parseBlockExprLoop(nextToken(p))

parseBlockExprLoop(p) ==
  IF curTokenIs(p, "DEDENT") \/ curTokenIs(p, "EOF") THEN p
  ELSE IF curTokenIs(p, "NEWLINE") \/ curTokenIs(p, "COMMENT")
    THEN parseBlockExprLoop(nextToken(p))
  ELSE parseBlockExprLoop(nextToken(parseEntry(p)))

parseEntry(p) ==
  LET q == IF curTokenIs(p, "IDENT") \/ curTokenIs(p, "STRING")
             THEN LET n == nextToken(p)
                  IN IF curToken(n).Type \notin {"NEWLINE", "DEDENT", "EOF", "COMMENT"}
                       THEN parseExpressionAt(n) ELSE n
             ELSE parseExpressionAt(p)
  IN IF peekTokenIs(q, "INDENT") THEN parseBlockExpr(nextToken(q)) ELSE q

parseImportStmt(p) ==
  IF peekTokenIs(p, "STRING")
    THEN Parsed(nextToken(p), Node("ImportStmt", curToken(p).Pos, <<>>, <<>>, <<>>))
    ELSE Parsed(addError(p), NilStmt)

parseVarDefStmt(p) ==
  LET a == nextToken(p)
      b == nextToken(a)
      stmt == Node("VarDefStmt", curToken(p).Pos, <<>>, <<>>, <<>>)
  IN IF curToken(a).Type \notin {"IDENT", "TIMEOUT", "HEADERS", "BODY"}
       THEN Parsed(addError(a), NilStmt)
     ELSE IF curTokenIs(b, "NEWLINE") THEN
       LET c == nextToken(b)
       IN Parsed(IF curTokenIs(c, "INDENT") THEN parseBlockExpr(c) ELSE c, stmt)
     ELSE IF ~curTokenIs(b, "EOF") /\ ~curTokenIs(b, "DEDENT")
       THEN Parsed(parseExpressionAt(b), stmt)
     ELSE Parsed(b, stmt)

parseEchoStmt(p) ==
  LET a == nextToken(p)
  IN Parsed(IF ~curTokenIs(a, "NEWLINE") /\ ~curTokenIs(a, "EOF")
              THEN parseExpressionAt(a) ELSE a,
            Node("EchoStmt", curToken(p).Pos, <<>>, <<>>, <<>>))

parseSeparatorStmt(p) ==
  Parsed(p, Node("SeparatorStmt", curToken(p).Pos, <<>>, <<>>, <<>>))

\* the loop over the headers, body and timeout sections of a request
RECURSIVE parseRequestSections(_)
parseRequestSections(p0) ==
  LET p == skipBlank(p0)
  IN IF curTokenIs(p, "HEADERS") THEN
       LET a == nextToken(p)
           b == skipNewlines(a)
       IN IF curTokenIs(b, "INDENT")
            THEN LET c == parseBlockExpr(b)
                 IN parseRequestSections(
                      IF curTokenIs(c, "DEDENT") THEN nextToken(c) ELSE c)
            ELSE parseRequestSections(b)
     ELSE IF curTokenIs(p, "BODY") THEN
       LET a == nextToken(p)
       IN IF curTokenIs(a, "NEWLINE") THEN
            LET b == nextToken(a)
            IN IF curTokenIs(b, "INDENT")
                 THEN LET c == parseBlockExpr(b)
                      IN parseRequestSections(
                           IF curTokenIs(c, "DEDENT") THEN nextToken(c) ELSE c)
                 ELSE parseRequestSections(b)
          ELSE IF ~curTokenIs(a, "EOF") /\ ~curTokenIs(a, "DEDENT") THEN
            LET b == skipToNewline(parseExpressionAt(a))
            IN parseRequestSections(
                 IF curTokenIs(b, "NEWLINE") THEN nextToken(b) ELSE b)
          ELSE parseRequestSections(a)
     ELSE IF curTokenIs(p, "TIMEOUT") THEN
       LET a == parseTimeoutExpressionAt(nextToken(p))
           b == skipToNewlineOrDedent(a)
       IN parseRequestSections(
            IF curTokenIs(b, "NEWLINE") THEN nextToken(b) ELSE b)
     ELSE p

\* "if p.curTokenIs(lexer.NEWLINE) { p.nextToken() }" after the URL line
skipNewline(p) == IF curTokenIs(p, "NEWLINE") THEN nextToken(p) ELSE p

parseRequestStmt(p) ==
  LET a == skipToNewline(parseExpressionAt(nextToken(p)))
  IN Parsed(parseRequestSections(skipNewline(a)),
            Node("RequestStmt", curToken(p).Pos, <<>>, <<>>, <<>>))

RECURSIVE parseStatement(_)
RECURSIVE parseForStmt(_, _)
RECURSIVE parseForBody(_, _)
RECURSIVE parseIndentedBodyLoop(_, _)
RECURSIVE parseQuestionBranches(_, _)

\* the head of a for statement up to its iterable: the parser, and whether
\* the head was accepted
parseForHead(p) ==
  IF peekTokenIs(p, "INT") \/ peekTokenIs(p, "FLOAT")
    THEN [p |-> parseExpressionAt(nextToken(p)), ok |-> TRUE]
  ELSE IF ~peekTokenIs(p, "DOLLAR") THEN [p |-> addError(p), ok |-> FALSE]
  ELSE IF ~peekTokenIs(nextToken(p), "IDENT")
    THEN [p |-> addError(nextToken(p)), ok |-> FALSE]
  ELSE
    LET a == nextToken(nextToken(nextToken(p)))
        b == IF ~curTokenIs(a, "COMMA") THEN [p |-> a, ok |-> TRUE]
             ELSE IF ~curTokenIs(nextToken(a), "DOLLAR")
               THEN [p |-> addError(nextToken(a)), ok |-> FALSE]
             ELSE IF ~curTokenIs(nextToken(nextToken(a)), "IDENT")
               THEN [p |-> addError(nextToken(nextToken(a))), ok |-> FALSE]
             ELSE [p |-> nextToken(nextToken(nextToken(a))), ok |-> TRUE]
    IN IF ~b.ok THEN b
       ELSE IF ~curTokenIs(b.p, "IN") THEN [p |-> addError(b.p), ok |-> FALSE]
       ELSE [p |-> parseExpressionAt(nextToken(b.p)), ok |-> TRUE]

\* the loop over the body of a for statement: every turn ends with nextToken
parseForBody(p, body) ==
  IF ~curTokenIs(p, "DEDENT") /\ ~curTokenIs(p, "EOF") /\ ~curTokenIs(p, "TRIPLE_DASH")
    THEN Only({parseForBody(nextToken(r.p),
                         IF r.stmt.Kind # "nil" THEN Append(body, r.stmt) ELSE body) : r \in {parseStatement(p)}})
    ELSE [p |-> p, body |-> body]

parseForStmt(p, parallel) ==
  LET h == parseForHead(p)
      a == skipToNewline(h.p)
      b == IF peekTokenIs(a, "INDENT")
             THEN parseForBody(nextToken(nextToken(a)), <<>>)
             ELSE [p |-> a, body |-> <<>>]
  IN IF ~h.ok THEN Parsed(h.p, NilStmt)
     ELSE Parsed(b.p, Node(IF parallel THEN "ParallelForStmt" ELSE "ForStmt",
                           curToken(p).Pos, b.body, <<>>, <<>>))

parseParallelForStmt(p) ==
  LET a == nextToken(p)
      b == IF curTokenIs(a, "INT") THEN nextToken(a) ELSE a
      r == parseForStmt(b, TRUE)
  IN IF ~curTokenIs(b, "FOR") THEN Parsed(addError(b), NilStmt)
     ELSE IF r.stmt.Kind = "nil" THEN r
     ELSE Parsed(r.p, [r.stmt EXCEPT !.Pos = curToken(p).Pos])

\* "Only advance if parseStatement didn't already reach a block terminator."
advance(p) ==
  IF ~curTokenIs(p, "DEDENT") /\ ~curTokenIs(p, "EOF") /\ ~curTokenIs(p, "TRIPLE_DASH")
    THEN nextToken(p) ELSE p

parseIndentedBodyLoop(p, stmts) ==
  IF ~curTokenIs(p, "DEDENT") /\ ~curTokenIs(p, "EOF") /\ ~curTokenIs(p, "TRIPLE_DASH")
    THEN Only({parseIndentedBodyLoop(advance(r.p),
              IF r.stmt.Kind # "nil" THEN Append(stmts, r.stmt) ELSE stmts) : r \in {parseStatement(p)}})
    ELSE [p |-> p, body |-> stmts]

parseIndentedBody(p) ==
  IF ~peekTokenIs(p, "INDENT") THEN [p |-> p, body |-> <<>>]
  ELSE parseIndentedBodyLoop(nextToken(nextToken(p)), <<>>)

parseIfStmt(p) ==
  LET a == skipToNewline(parseConditionExpression(nextToken(p)))
      b == parseIndentedBody(a)
      e == IF curTokenIs(b.p, "DEDENT") /\ peekTokenIs(b.p, "ELSE")
             THEN parseIndentedBody(skipToNewline(nextToken(nextToken(b.p))))
             ELSE [p |-> b.p, body |-> <<>>]
  IN Parsed(e.p, Node("IfStmt", curToken(p).Pos, <<>>, <<b.body>>, e.body))

\* the ":" alternatives of a "?" conditional: the parser, the bodies of the
\* branches, the Else
parseQuestionBranches(p, branches) ==
  IF curTokenIs(p, "DEDENT") /\ peekTokenIs(p, "COLON") THEN
    LET a == nextToken(nextToken(p))
    IN IF curTokenIs(a, "NEWLINE")
         THEN LET e == parseIndentedBody(a)
              IN [p |-> e.p, branches |-> branches, else |-> e.body]
         ELSE LET b == parseIndentedBody(skipToNewline(parseConditionExpression(a)))
              IN parseQuestionBranches(b.p, Append(branches, b.body))
  ELSE [p |-> p, branches |-> branches, else |-> <<>>]

parseQuestionIfStmt(p) ==
  LET a == skipToNewline(parseConditionExpression(nextToken(p)))
      b == parseIndentedBody(a)
      q == parseQuestionBranches(b.p, <<b.body>>)
  IN Parsed(q.p, Node("IfStmt", curToken(p).Pos, <<>>, q.branches, q.else))

parseStatement(p0) ==
  LET p == skipBlank(p0)
      t == curToken(p).Type
  IN CASE t = "EOF" -> Parsed(p, NilStmt)
       [] t = "IMPORT" -> parseImportStmt(p)
       [] t = "AT" -> parseVarDefStmt(p)
       [] t = "PARALLEL" -> parseParallelForStmt(p)
       [] t = "FOR" -> parseForStmt(p, FALSE)
       [] t = "IF" -> parseIfStmt(p)
       [] t = "ECHO" -> parseEchoStmt(p)
       [] t = "QUESTION" -> parseQuestionIfStmt(p)
       [] t = "TRIPLE_DASH" -> parseSeparatorStmt(p)
       [] t = "GET" -> parseRequestStmt(p)
       [] t = "DEDENT" -> Parsed(p, NilStmt)
       [] t \in {"HEADERS", "BODY"} -> Parsed(p, NilStmt)
       [] OTHER -> Parsed(nextToken(p), NilStmt)

\* the loop of Parse: parseStatement, append, nextToken
RECURSIVE ParseLoop(_, _)
ParseLoop(p, stmts) ==
  IF ~curTokenIs(p, "EOF")
    THEN Only({ParseLoop(nextToken(r.p),
                      IF r.stmt.Kind # "nil" THEN Append(stmts, r.stmt) ELSE stmts) : r \in {parseStatement(p)}})
    ELSE [p |-> p, stmts |-> stmts]

\* NewV2(input).Parse(): the statements, or nil with an error
ParseProgram(toks) ==
  LET r == ParseLoop(NewV2(toks), <<>>)
  IN IF r.p.errors > 0 THEN [ok |-> FALSE, Statements |-> <<>>]
     ELSE [ok |-> TRUE, Statements |-> r.stmts]

\* the statements of the source texts: a request of one line, a request with
\* a timeout line, a request with a headers section, a definition, an echo
SimpleKinds == {"request", "requestTimeout", "requestHeaders", "vardef", "echo"}

\* a source statement: its kind, its position, and for a loop or a
\* conditional the statements of its body and of its alternative
Src(kind, at, body, else) == [Kind |-> kind, Pos |-> at, Body |-> body, Else |-> else]

\* statements of the kinds ks, one per line, numbered from base + 1
Flat(ks, base) == [n \in 1..Len(ks) |-> Src(ks[n], base + n, <<>>, <<>>)]

\* the tokens the lexer returns for the lines of a statement: NEWLINE at the
\* end of every line, INDENT before the first token of a deeper line, DEDENT
\* before the first token of a shallower line or before EOF
RECURSIVE StmtTokens(_)
RECURSIVE SeqTokens(_)
SeqTokens(ss) ==
  IF Len(ss) = 0 THEN <<>> ELSE StmtTokens(Head(ss)) \o SeqTokens(Tail(ss))

StmtTokens(s) ==
  LET at == s.Pos
      line == <<T("GET", at), T("STRING", at), T("NEWLINE", at)>>
      block == <<T("NEWLINE", at), T("INDENT", at)>> \o SeqTokens(s.Body)
                 \o <<T("DEDENT", at)>>
      alt == <<T("NEWLINE", at), T("INDENT", at)>> \o SeqTokens(s.Else)
               \o <<T("DEDENT", at)>>
  IN CASE s.Kind = "request" -> line
       [] s.Kind = "requestTimeout" ->
            line \o <<T("TIMEOUT", at), T("INT", at), T("NEWLINE", at)>>
       [] s.Kind = "requestHeaders" ->
            line \o <<T("HEADERS", at), T("NEWLINE", at), T("INDENT", at),
                      T("IDENT", at), T("IDENT", at), T("NEWLINE", at),
                      T("DEDENT", at)>>
       [] s.Kind = "vardef" ->
            <<T("AT", at), T("IDENT", at), T("INT", at), T("NEWLINE", at)>>
       [] s.Kind = "echo" -> <<T("ECHO", at), T("STRING", at), T("NEWLINE", at)>>
       [] s.Kind = "separator" -> <<T("TRIPLE_DASH", at), T("NEWLINE", at)>>
       [] s.Kind = "for" -> <<T("FOR", at), T("INT", at)>> \o block
       [] s.Kind = "if" ->
            <<T("IF", at), T("TRUE", at)>> \o block
              \o (IF Len(s.Else) > 0 THEN <<T("ELSE", at)>> \o alt ELSE <<>>)
       [] s.Kind = "question" ->
            <<T("QUESTION", at), T("TRUE", at)>> \o block
              \o (IF Len(s.Else) > 0 THEN <<T("COLON", at)>> \o alt ELSE <<>>)

SourceTokens(ss) == SeqTokens(ss) \o <<T("EOF", 0)>>

\* the statement list the language defines for a source: one node per
\* statement, in source order, bodies and alternatives nested
RECURSIVE StmtNode(_)
RECURSIVE SeqNodes(_)
SeqNodes(ss) == [n \in 1..Len(ss) |-> StmtNode(ss[n])]

StmtNode(s) ==
  CASE s.Kind \in {"request", "requestTimeout", "requestHeaders"} ->
         Node("RequestStmt", s.Pos, <<>>, <<>>, <<>>)
    [] s.Kind = "vardef" -> Node("VarDefStmt", s.Pos, <<>>, <<>>, <<>>)
    [] s.Kind = "echo" -> Node("EchoStmt", s.Pos, <<>>, <<>>, <<>>)
    [] s.Kind = "separator" -> Node("SeparatorStmt", s.Pos, <<>>, <<>>, <<>>)
    [] s.Kind = "for" -> Node("ForStmt", s.Pos, SeqNodes(s.Body), <<>>, <<>>)
    [] OTHER -> Node("IfStmt", s.Pos, <<>>, <<SeqNodes(s.Body)>>, SeqNodes(s.Else))

KindSeqs(kinds) == UNION {[1..n -> kinds] : n \in 1..MaxStmts}

\* sources of statements at one indentation level: at the top level, in
\* the body of a for statement, in the body of a conditional
LevelSources ==
  {[level |-> "top", stmts |-> Flat(ks, 0)] : ks \in KindSeqs(SimpleKinds)}
    \cup {[level |-> "for", stmts |-> <<Src("for", 1, Flat(ks, 10), <<>>)>>] :
             ks \in KindSeqs(SimpleKinds)}
    \cup {[level |-> "if", stmts |-> <<Src("if", 1, Flat(ks, 10), <<>>)>>] :
             ks \in KindSeqs(SimpleKinds)}

\* a body statement of a conditional: a simple one, or a for statement around
\* one echo
BodyStmt(k, at) ==
  IF k = "for" THEN Src("for", at, <<Src("echo", 10 * at, <<>>, <<>>)>>, <<>>)
  ELSE Src(k, at, <<>>, <<>>)

\* sources of one conditional, "if" or "?", with or without an alternative,
\* whose body may hold a nested for statement
CondSources ==
  {[level |-> "cond",
    stmts |-> <<Src(form, 1, [n \in 1..Len(ks) |-> BodyStmt(ks[n], 10 + n)],
                    IF alt THEN <<Src("echo", 20, <<>>, <<>>)>> ELSE <<>>)>>] :
     form \in {"if", "question"}, alt \in BOOLEAN,
     ks \in KindSeqs({"vardef", "echo", "for"})}

ParseSources == LevelSources \cup CondSources

InitParse ==
  /\ LexerIdle /\ EvaluatorIdle
  /\ \E src \in ParseSources : callArg = <<src>>
  /\ callResult = <<>>

\* NewV2(input).Parse() on the tokens of the source
Parse ==
  /\ callResult = <<>>
  /\ callResult' = <<ParseProgram(SourceTokens(callArg[1].stmts))>>
  /\ UNCHANGED <<lexVars, evalVars, callArg>>

SpecParse == InitParse /\ [][Parse]_vars

Init ==
  /\ LexerIdle /\ NoCall
  /\ \E it \in Iterables, c \in Concurrencies, run \in Runs :
       /\ program \in Programs(it, c)
       /\ entry = run.entry
       /\ requestCallback = run.requestCallback
  /\ NewEvaluator
  /\ stack = <<>>
  /\ ret = [state |-> "init", outcome |-> "none", err |-> NoErr, requests |-> <<>>]
  /\ par = NoPar /\ tasks = <<>> /\ callbackLog = <<>> /\ lastResp = NilResp
  /\ requestCount = 0
  /\ nextUid = 1 /\ encountered = <<>>

Next ==
  \/ Eval
  \/ execute
  \/ EvalStatementsDone
  \/ EvalCallbacks
  \/ executeDone
  \/ evalStatementCollectRequest
  \/ executeRequest
  \/ Separator
  \/ evalVarDef
  \/ evalIf
  \/ evalIfReturn
  \/ evalForCollect
  \/ evalForCollectIterate
  \/ evalForCollectRestore
  \/ evalForCollectRequest
  \/ evalParallelFor
  \/ EvalParallelForWithOutput
  \/ \E t \in DOMAIN tasks : Acquire(t)
  \/ \E t \in DOMAIN tasks : TaskBody(t)
  \/ \E t \in DOMAIN tasks : TaskCallback(t)
  \/ \E t \in DOMAIN tasks : TaskRecord(t)
  \/ \E t \in DOMAIN tasks : TaskRelease(t)
  \/ Join

Spec == Init /\ [][Next]_vars

\* a step of the running parallel loop: of one of its goroutines, or the
\* return of wg.Wait()
ParallelStep ==
  \/ \E t \in DOMAIN tasks :
       Acquire(t) \/ TaskBody(t) \/ TaskCallback(t) \/ TaskRecord(t) \/ TaskRelease(t)
  \/ Join

\* the scheduler runs a goroutine that can run, and every callback returns
SpecFair == Init /\ [][Next]_vars /\ WF_vars(ParallelStep)

InitLex == InitLexer /\ EvaluatorIdle /\ NoCall

NextLex == Tokenize /\ UNCHANGED <<evalVars, pureVars>>

SpecLex == InitLex /\ [][NextLex]_vars

InitLexAny == ZeroLexer /\ EvaluatorIdle /\ NoCall

\* New, then the loop of Tokenize on the lexer it returned
NextLexAny ==
  \/ NewLexer /\ UNCHANGED <<evalVars, pureVars>>
  \/ readPos > 0 /\ Tokenize /\ UNCHANGED <<evalVars, pureVars>>

\* the token types NextToken returns
TokenTypes ==
  {"EOF", "ILLEGAL", "IDENT", "KEYWORD", "INT", "FLOAT", "STRING",
   "PROC_STRING", "NEWLINE", "INDENT", "DEDENT", "COMMENT", "TRIPLE_DASH",
   "AT", "DOLLAR", "DOT", "EMPTY_ARRAY", "EMPTY_OBJ"}

\* the step of NextLexAny that constructs the lexer, by what it does to readPos
NewRuns == readPos = 0 /\ readPos' = 1

\* the steps of NextLexAny that are a turn of the loop of Tokenize, by what
\* they do to tokens: one more token after each call
TokenizeRuns ==
  /\ readPos > 0 /\ ~lexDone
  /\ \E t \in TokenTypes : tokens' = Append(tokens, t)

\* the program runs on: New returns, and the loop of Tokenize keeps calling
\* NextToken until it has seen EOF
SpecLexFair ==
  InitLexAny /\ [][NextLexAny]_vars /\ WF_readPos(NewRuns) /\ WF_tokens(TokenizeRuns)

RECURSIVE CountTok(_, _)
CountTok(ts, t) ==
  IF Len(ts) = 0 THEN 0
  ELSE (IF Head(ts) = t THEN 1 ELSE 0) + CountTok(Tail(ts), t)

(***************************************************************************)
(* Properties                                                              *)
(***************************************************************************)
\* a goroutine holds a slot of the semaphore: it is between "sem <- ..." and
\* the deferred "<-sem"
TaskRunning(t) == tasks[t].pc \in {"body", "callback", "record", "release"}

NumRunning == Cardinality({t \in DOMAIN tasks : TaskRunning(t)})

\* C1: while a parallel loop over k items with concurrency bound N runs, at
\* most N task bodies run at the same time when N > 0, and at most k when the
\* bound is omitted or not positive, on evalParallelFor and on
\* EvalParallelForWithOutput.
C1_GateBound ==
  par.fn # "none" =>
    NumRunning <= (IF par.stmt.Concurrency > 0 THEN par.stmt.Concurrency
                   ELSE Len(par.items))

\* two items, bound 1: one task runs its body, the other waits at the gate
C1_Witness ==
  /\ par.fn = "EvalParallelForWithOutput"
  /\ par.stmt.Concurrency = 1 /\ Len(par.items) = 2
  /\ NumRunning = 1
  /\ \E t \in DOMAIN tasks : tasks[t].pc = "acquire"

\* the requests a step appends to collectedRequests
Added ==
  SubSeq(collectedRequests', Len(collectedRequests) + 1, Len(collectedRequests'))

\* C2: a parallel loop over a list of k items whose body is one request,
\* evaluated with no callback, adds exactly one descriptor per item whose
\* request was synthesized, in whatever order the tasks finished: k
\* descriptors, equal as a set to the k expected ones, when no task recorded a
\* failure.
C2_ParallelCollectsOnePerItem ==
  [][ ( /\ par.fn = "evalParallelFor" /\ par'.fn = "none"
        /\ ~requestCallback
        /\ Len(par.stmt.Body) = 1 )
      => LET Failed == {par.errors[n].src : n \in DOMAIN par.errors}
         IN /\ Len(Added) = Len(par.items) - Cardinality(Failed)
            /\ Len(par.errors) = 0 => Len(Added) = Len(par.items)
            /\ SubSeq(collectedRequests', 1, Len(collectedRequests)) = collectedRequests
            /\ \A t \in (1..Len(par.items)) \ Failed :
                 \E n \in 1..Len(Added) :
                   /\ Added[n].uid = par.baseUid + t - 1
                   /\ Added[n].id = par.stmt.Body[1].Id
                   /\ Added[n].url[1] = Format(par.items[t]) ]_vars

\* both descriptors of a two-item loop are collected, the second item's first
C2_Witness ==
  /\ ~requestCallback /\ par.fn = "none" /\ encountered = <<20>>
  /\ Len(collectedRequests) = 2
  /\ collectedRequests[1].url = <<"5", "1">>
  /\ collectedRequests[2].url = <<"5", "0">>

\* C3: a parallel loop does not return, and the evaluating goroutine
\* evaluates nothing, until every task spawned for the loop has finished,
\* whether tasks succeeded or failed.
C3_FullJoin ==
  [][ (par.fn # "none" /\ \E t \in DOMAIN tasks : tasks[t].pc # "done")
      => /\ par'.fn # "none"
         /\ stack' = stack /\ ret' = ret /\ scope' = scope
         /\ collectedRequests' = collectedRequests ]_vars

\* one task has failed and finished while its sibling is still running
C3_Witness ==
  /\ par.fn # "none" /\ Len(par.errors) = 1
  /\ \E t \in DOMAIN tasks : tasks[t].pc = "done"
  /\ \E t \in DOMAIN tasks : tasks[t].pc = "body"

\* the tasks that recorded a failure
FailedTasks == {par.errors[n].src : n \in DOMAIN par.errors}

\* C4: a failing task never keeps a sibling from running its body to
\* completion; after the join the loop returns one error that carries the
\* number of failed tasks and the first recorded failure, and it returns no
\* error iff no task failed.
C4_FailuresIsolatedAndAggregated ==
  [][ (par.fn # "none" /\ par'.fn = "none")
      => /\ \A t \in DOMAIN tasks : tasks[t].pc = "done"
         /\ Cardinality(FailedTasks) = Len(par.errors)
         /\ par.times = Len(par.items) - Cardinality(FailedTasks)
         /\ (FailedTasks = {}) <=> (ret'.err = NoErr /\ ret'.state = "running")
         /\ FailedTasks # {} =>
              /\ ret'.state = "done"
              /\ ret'.err.kind = "parallel"
              /\ ret'.err.count = Cardinality(FailedTasks)
              /\ ret'.err.firstKind = par.errors[1].kind
              /\ ret'.err.firstSrc = par.errors[1].src ]_vars

\* one failed, the other ran to completion and its descriptor was collected
C4_Witness ==
  /\ ret.state = "done" /\ ret.err.kind = "parallel" /\ ret.err.count = 1
  /\ Len(collectedRequests) = 1

\* C5: with a callback configured and two requests separated by "---", when
\* the callback's response to the first carries token = "abc", the descriptor
\* of the second that is handed to the callback has "Bearer $_.token"
\* resolved to "Bearer abc".
C5_ChainResolvesPrevious ==
  [][ ( /\ program = ChainProgram
        /\ Len(callbackLog') = Len(callbackLog) + 1
        /\ Len(callbackLog) = 1 /\ callbackLog[1].id = 1
        /\ lastResp = Resp("abc")
        /\ callbackLog'[2].id = 2 )
      => callbackLog'[2].auth = "Bearer abc" ]_vars

\* C6: with a callback configured, callbacks for requests outside parallel
\* loops are invoked in program order: a request evaluated earlier is handed
\* to the callback earlier.
C6_CallbacksInProgramOrder ==
  [][ (par.fn = "none" /\ Len(callbackLog') = Len(callbackLog) + 1)
      => \A n \in DOMAIN callbackLog :
           callbackLog[n].uid < callbackLog'[Len(callbackLog')].uid ]_vars

\* C7: the callback is invoked at most once per evaluation of a Request
\* statement: no descriptor is handed to the callback twice, on Eval, on
\* EvalForCollect and on EvalParallelForWithOutput.
C7_NoDescriptorTwice ==
  \A m, n \in DOMAIN callbackLog :
    m # n => callbackLog[m].uid # callbackLog[n].uid

\* Eval with a callback has handed over the request before a loop, the two of
\* the loop and the one after it
C7_Witness ==
  /\ entry = "Eval" /\ requestCallback /\ ret.state = "done"
  /\ Len(callbackLog) = 4
  /\ \E n \in DOMAIN callbackLog : callbackLog[n].id = 1
  /\ Cardinality({n \in DOMAIN callbackLog : callbackLog[n].id = 2}) = 2
  /\ \E n \in DOMAIN callbackLog : callbackLog[n].id = 3

\* C8: after the run GetAllParallelStats returns one entry per parallel loop
\* encountered, in encounter order, wherever the loop sits and for every
\* iterable, an empty one included.
C8_OneStatsEntryPerLoop ==
  ret.state = "done" =>
    [n \in 1..Len(GetAllParallelStats) |-> GetAllParallelStats[n].loop] = encountered

\* C9, as stated: at every point the INDENT tokens emitted minus the DEDENT
\* tokens emitted equal the depth of the indentation stack minus one.
C9_EmittedMatchesDepth ==
  CountTok(tokens, "INDENT") - CountTok(tokens, "DEDENT") = Len(indentStack) - 1

\* C9, amended: the INDENT tokens emitted minus the DEDENT tokens emitted equal
\* the depth of the indentation stack minus one plus the DEDENT tokens queued
\* and not yet returned; when EOF is emitted the two counts are equal and the
\* stack is back to its single level 0.
C9_IndentDedentBalance ==
  /\ CountTok(tokens, "INDENT") - CountTok(tokens, "DEDENT")
       = Len(indentStack) - 1 + Len(pendingTokens)
  /\ lexDone => /\ CountTok(tokens, "INDENT") = CountTok(tokens, "DEDENT")
                /\ indentStack = <<0>>
                /\ pendingTokens = <<>>

\* the end of a text with a ragged dedent: levels 0, 4, then 2
C9_Witness ==
  /\ lexDone
  /\ input = <<"\t", "a", "\n", " ", " ", "a", "\n", " ", " ", "a">>
  /\ CountTok(tokens, "INDENT") = 2 /\ CountTok(tokens, "DEDENT") = 2

\* the sequential loops at the top level that hold a Request in their body
SeqLoops ==
  {n \in DOMAIN program :
     /\ program[n].Kind = "ForStmt" /\ ~program[n].Parallel
     /\ \E b \in DOMAIN program[n].Body : program[n].Body[b].Kind = "RequestStmt"}

\* the number of iterations of a loop and its item j (0-based), as the
\* language defines them
LoopCount(L) == IF L.Iterable.t = "int" THEN L.Iterable.n ELSE Len(L.Iterable.items)

LoopItem(L, j) == IF L.Iterable.t = "int" THEN IntV(j) ELSE L.Iterable.items[j + 1]

\* the descriptors collected for request q, in collection order
DescriptorsOf(q) ==
  LET Test(d) == d.id = q.Id IN SelectSeq(collectedRequests, Test)

\* C10: a sequential loop over a list of k items, or over a non-negative
\* integer N (k = N, item j = j), evaluated without a callback, appends the
\* descriptors of each body request in strict iteration order, the j-th
\* synthesized with the item variable bound to item j and the index variable,
\* if declared, bound to j; exactly k of them once the run ends without error.
C10_SequentialLoopInOrder ==
  ~requestCallback =>
    \A n \in SeqLoops : \A b \in DOMAIN program[n].Body :
      LET L == program[n]
          q == L.Body[b]
          D == DescriptorsOf(q)
      IN (q.Kind = "RequestStmt" /\ L.Iterable.t \in {"int", "list"}) =>
           /\ \A j \in 0..(Len(D) - 1) :
                /\ j < LoopCount(L)
                /\ D[j + 1].url[1] = Format(LoopItem(L, j))
                /\ L.IndexVar # "" => D[j + 1].url[2] = Format(IntV(j))
           /\ ret.outcome = "ok" => Len(D) = LoopCount(L)

\* "for $i, $x in 2" has run: descriptors for (0, 0) and (1, 1), in order,
\* between the request before the loop and the one after it
C10_Witness ==
  /\ ~requestCallback /\ ret.outcome = "ok"
  /\ program = SeqLoopProgram(IntV(2))
  /\ Len(collectedRequests) = 4
  /\ collectedRequests[2].url = <<"0", "0">>
  /\ collectedRequests[3].url = <<"1", "1">>

\* the identifiers of the descriptors collected so far
Ids(reqs) == [n \in DOMAIN reqs |-> reqs[n].id]

\* the body "? $x > 5 (11) : $x > 0 (12) : (13)" has to run when x = v
ExpectedAlternative(v, withElse) ==
  IF v.t = "int" /\ v.n > 5 THEN <<11>>
  ELSE IF v.t = "int" /\ v.n > 0 THEN <<12>>
  ELSE IF withElse THEN <<13>> ELSE <<>>

\* C11: a conditional executes the body of exactly one alternative, the first
\* branch in order whose condition is truthy; no later branch body and not
\* the else body; the else body is executed iff no condition is truthy.
C11_FirstTruthyBranchOnly ==
  \A v \in CondValues, e \in BOOLEAN :
    program = CondProgram(v, e) =>
      LET alt == ExpectedAlternative(v, e)
          ran == SelectSeq(Ids(collectedRequests), LAMBDA n : n \in {11, 12, 13})
      IN /\ ran \in {<<>>, alt}
         /\ (14 \in {collectedRequests[n].id : n \in DOMAIN collectedRequests})
              => ran = alt

\* "? $x > 5 ... : $x > 0 ... : ..." with x = 3 has run the second body only
C11_Witness ==
  /\ program = CondProgram(IntV(3), TRUE)
  /\ ret.state = "done" /\ ret.outcome = "ok"
  /\ Ids(collectedRequests) = <<12, 14>>

\* C12: when a statement on a non-parallel path fails, no later statement is
\* evaluated and the descriptors collected before the failure are handed to
\* the caller of Eval / EvalToRequests with the error.
C12_FailFastPreservesCollected ==
  ( /\ entry \in {"Eval", "EvalToRequests"}
    /\ ret.state = "done" /\ ret.outcome = "error"
    /\ ret.err.kind # "parallel" )
  => /\ stack = <<>>
     /\ ret.requests = collectedRequests

\* C13: on success Eval and EvalToRequests return every descriptor that was
\* synthesized during the run, those of sequential and parallel loop bodies
\* included, with or without a request callback.
C13_ReturnsAllSynthesized ==
  ( /\ entry \in {"Eval", "EvalToRequests"}
    /\ ret.state = "done" /\ ret.outcome = "ok" )
  => /\ {ret.requests[n].uid : n \in DOMAIN ret.requests} = 1..(nextUid - 1)
     /\ Len(ret.requests) = nextUid - 1

\* every descriptor synthesized so far and seen by the caller or the callback
Descriptors == collectedRequests \o callbackLog

\* the default a request without timeout line has to see after the global
\* definitions gs, in evaluation order: the last valid one, else 30 seconds
RECURSIVE GlobalDefault(_)
GlobalDefault(gs) ==
  IF Len(gs) = 0 THEN 30 * Second
  ELSE LET g == gs[Len(gs)]
       IN IF g # Unset /\ parseTimeout(g).ok THEN parseTimeout(g).d
          ELSE GlobalDefault(SubSeq(gs, 1, Len(gs) - 1))

\* the timeout descriptor d of TimeoutProgram(g1, r, g2) has to carry
ExpectedTimeout(d, g1, r, g2) ==
  CASE d.id = 22 -> parseTimeout(IF r.t = "unquoted" THEN Text(r.items) ELSE r).d
    [] d.id = 24 -> GlobalDefault(<<g1, g2>>)
    [] OTHER -> GlobalDefault(<<g1>>)

RECURSIVE LeadingDigits(_)
LeadingDigits(cs) ==
  IF Len(cs) > 0 /\ cs[1] \in Digits THEN <<cs[1]>> \o LeadingDigits(Tail(cs)) ELSE <<>>

Denoted(text) ==
  LET num == LeadingDigits(text)
      unit == SubSeq(text, Len(num) + 1, Len(text))
  IN DigitsValue(num) *
       (CASE unit \in {<<"s">>, <<"s", "e", "c">>} -> 1000
          [] unit = <<"m", "s">> -> 1
          [] OTHER -> 60000)

\* C15: a global "@timeout" written as a number with a unit suffix sets the
\* default timeout to that duration in that unit, exactly as the same literal
\* does on a request's "timeout" line.
C15_GlobalTimeoutUnits ==
  callResult # <<>> =>
    /\ callResult[1].request.ok
    /\ callResult[1].request.d = Denoted(callArg)
    /\ callResult[1].global = callResult[1].request.d


\* whether getNestedValue finds something at every step of the path
RECURSIVE Reaches(_, _)
Reaches(data, path) ==
  IF Len(path) = 0 THEN TRUE
  ELSE CASE data.t = "map" ->
              /\ \E k \in DOMAIN data.items : data.items[k].key = Head(path)
              /\ Reaches(MapIndex(data.items, Head(path)), Tail(path))
         [] data.t = "list" ->
              LET idx == ParseInt(Head(path))
              IN /\ idx.ok /\ idx.n >= 0 /\ idx.n < Len(data.items)
                 /\ Reaches(data.items[idx.n + 1], Tail(path))
         [] OTHER -> FALSE

\* whether a path can be resolved: its variable is known (for "_": there is
\* a previous response) and every field and index below it exists
Resolvable(env, path) ==
  LET parts == Split(path)
  IN IF parts[1] = <<"_">>
       THEN /\ env.prevResponse.kind # "nil"
            /\ Reaches(PrevValue(env.prevResponse), Tail(parts))
       ELSE /\ GetChars(env.vars, parts[1]) # Unset
            /\ Reaches(GetChars(env.vars, parts[1]), Tail(parts))

\* the text with every resolvable path replaced by the textual form of its
\* value, and every other byte kept
RECURSIVE Interpolated(_, _)
Interpolated(env, cs) ==
  IF Len(cs) = 0 THEN <<>>
  ELSE LET j == runEnd(cs, 2)
           path == SubSeq(cs, 2, j - 1)
       IN IF cs[1] = "$" /\ j > 2 /\ Resolvable(env, path)
            THEN Sprintv(resolvePath(env, path)) \o Interpolated(env, SubSeq(cs, j, Len(cs)))
            ELSE <<cs[1]>> \o Interpolated(env, Tail(cs))

\* C16: in a quoted string every $path that cannot be resolved (unknown
\* variable, missing field or out-of-range index under a known variable, $_
\* without a previous response) stays as its literal text, and only the
\* resolvable paths are replaced by the textual form of their value
C16_UnresolvedLeftLiteral ==
  callResult # <<>> => callResult[1] = Interpolated(Env, callArg)

\* a decimal integer: an optional sign and one or more digits
IsDecimalInteger(cs) == Len(Unsigned(cs)) > 0 /\ AllDigits(Unsigned(cs))

\* a decimal: an optional sign, digits and at most one ".", with a digit
IsDecimal(cs) ==
  LET u == Unsigned(cs)
  IN /\ \A k \in DOMAIN u : u[k] \in Digits \cup {"."}
     /\ Cardinality({k \in DOMAIN u : u[k] = "."}) <= 1
     /\ \E k \in DOMAIN u : u[k] \in Digits

\* the type the inference table gives a scalar text
InferredType(cs) ==
  IF cs \in {<<"t", "r", "u", "e">>, <<"f", "a", "l", "s", "e">>} THEN "bool"
  ELSE IF cs \in {<<"_">>, <<"n", "u", "l", "l">>, <<"n", "i", "l">>} THEN "nil"
  ELSE IF IsDecimalInteger(cs) THEN "int"
  ELSE IF IsDecimal(cs) THEN "float"
  ELSE "text"

\* C17: type inference gives every unquoted scalar text a bool for exactly
\* true/false, null for exactly _/null/nil, an integer when the text is a
\* decimal integer, else a float when it is a decimal, else the text itself
\* as a string; the same text quoted stays a string
C17_InferTypeTable ==
  callResult # <<>> =>
    /\ callResult[1].unquoted.t = InferredType(callArg)
    /\ callResult[1].unquoted.t = "text" => callResult[1].unquoted.items = callArg
    /\ callResult[1].unquoted.t = "bool" =>
         callResult[1].unquoted = BoolV(callArg = <<"t", "r", "u", "e">>)
    /\ callResult[1].quoted = Text(callArg)

\* no own entry of the block has both a key and a value
ListShaped(block) ==
  ~\E k \in DOMAIN block.items :
     block.items[k].Key # <<>> /\ block.items[k].Value # NoExpr

\* the last entry of the block that has the key
LastWithKey(block, key) ==
  CHOOSE k \in DOMAIN block.items :
    /\ block.items[k].Key = key
    /\ \A m \in DOMAIN block.items : block.items[m].Key = key => m <= k

\* the value of a scalar entry and the shape of a nested block, from the
\* entry alone
ValueOfEntry(e) ==
  CASE e.Value = NoExpr -> NilV
    [] e.Value = IntV(100) -> IntV(100)
    [] e.Value = Unquoted(<<"a", "p", "i">>) -> Text(<<"a", "p", "i">>)
    [] e.Value = Unquoted(<<"n", "u", "l", "l">>) -> NilV
    [] e.Value = BlockExpr(<<>>) -> ListV(<<>>)
    [] e.Value = BlockExpr(<<Entry(<<"a">>, IntV(100))>>) ->
         MapV(<<[key |-> <<"a">>, val |-> IntV(100)]>>)
    [] e.Value = BlockExpr(<<Entry(<<"a">>, NoExpr), Entry(<<>>, IntV(100))>>) ->
         ListV(<<NilV, IntV(100)>>)
    [] OTHER -> ListV(<<Text(<<"a", "p", "i">>), IntV(100)>>)

HandedOnce(uid) ==
  Cardinality({k \in DOMAIN callbackLog' : callbackLog'[k].uid = uid}) = 1

\* C19: when a parallel loop returns in a run with a request callback, the
\* descriptor of every Request of the body has been handed to the callback
\* once for every item whose task did not fail, whether the loop ran in
\* evalParallelFor (reached by statement dispatch) or in
\* EvalParallelForWithOutput
C19_ParallelCallbackEveryDescriptor ==
  [][ (par.fn # "none" /\ par'.fn = "none" /\ requestCallback)
      => \A t \in (1..Len(par.items)) \ FailedTasks :
           \A j \in DOMAIN par.stmt.Body :
             par.stmt.Body[j].Kind = "RequestStmt"
               => HandedOnce(uidOf(t, j)) ]_vars

\* the value the variable has for the statement j of a loop body after the
\* definitions in front of it in the body: body's last "@name value" before
\* j, else the value the iteration started with
RECURSIVE ValueAfterDefs(_, _, _, _)
ValueAfterDefs(body, j, name, start) ==
  IF j = 1 THEN start
  ELSE IF body[j - 1].Kind = "VarDefStmt" /\ body[j - 1].Name = name
         /\ body[j - 1].HasValue
    THEN body[j - 1].Value
  ELSE ValueAfterDefs(body, j - 1, name, start)

\* C20: a variable definition in the body of a parallel loop is evaluated
\* for each item, so the requests that follow it in the same iteration are
\* synthesized with the value it defines
C20_ParallelBodyEvaluatesDefinitions ==
  [][ \A t \in DOMAIN tasks :
        ( /\ par.fn # "none" /\ tasks[t].pc = "body"
          /\ par.stmt.Body[tasks[t].j].Kind = "RequestStmt"
          /\ tasks'[t].j = tasks[t].j + 1 )
        => LET s == par.stmt.Body[tasks[t].j]
               req == IF par.fn = "evalParallelFor"
                        THEN tasks'[t].iterRequests[Len(tasks'[t].iterRequests)]
                        ELSE evalRequest(s, taskEnv(t), taskUid(t)).req
           IN \A n \in DOMAIN s.Vars :
                LET v == ValueAfterDefs(par.stmt.Body, tasks[t].j, s.Vars[n],
                                        tasks[t].vars[s.Vars[n]])
                IN v # Unset => req.url[n] = Format(v) ]_vars

\* the evaluating goroutine is at a Request statement of the body of a
\* sequential loop, and a callback is configured
AtLoopRequest ==
  /\ Running /\ Top.kind = "evalForCollect" /\ Top.inBody /\ HasCur
  /\ Cur.Kind = "RequestStmt" /\ requestCallback

\* C21: in a sequential loop with a callback, the step that handles a Request
\* of the body hands its descriptor, synthesized against the previous
\* response of that moment, to the callback, and when the callback returns
\* a response that is not nil the previous response is that response before
\* anything else is evaluated
C21_SequentialLoopChains ==
  [][ (AtLoopRequest /\ evalRequest(Cur, Env, nextUid).ok)
      => /\ callbackLog' = Append(callbackLog, evalRequest(Cur, Env, nextUid).req)
         /\ Cur.UsesPrev =>
              callbackLog'[Len(callbackLog')].auth = interpolateBearer(Env)
         /\ (ret'.state = "running" /\ lastResp' # NilResp)
              => prevResponse' = lastResp'
         /\ (ret'.state = "running" /\ lastResp' = NilResp)
              => prevResponse' = prevResponse ]_vars

\* the request of the second iteration was sent with the token that the
\* callback returned for the first iteration
C21_Witness ==
  /\ requestCallback /\ Len(callbackLog) = 2
  /\ callbackLog[1].id = 2 /\ callbackLog[2].id = 2
  /\ callbackLog[1].url = <<"5", "0">> /\ callbackLog[2].url = <<"5", "1">>
  /\ callbackLog[2].auth = "Bearer abc"
  /\ prevResponse = Resp("xyz")

\* C22: with a callback, the step that handles a Request statement of a
\* selected conditional body hands its descriptor to the callback, and the
\* previous response is the callback's result (when it is not nil) before
\* the next statement is evaluated, under Eval as well as under execute
C22_BranchRequestExecutedAtOnce ==
  [][ ( /\ Running /\ HasCur /\ Top.kind = "evalIf" /\ Cur.Kind = "RequestStmt"
        /\ requestCallback
        /\ evalRequest(Cur, Env, nextUid).ok )
      => /\ callbackLog' = Append(callbackLog, evalRequest(Cur, Env, nextUid).req)
         /\ (ret'.state = "running" /\ lastResp' # NilResp)
              => prevResponse' = lastResp' ]_vars

\* the goroutines that are between the load and the store of a write to a
\* variable they share, the callback's request counter, with no lock held;
\* the lists, samples and counts of the loop are written in the critical
\* sections, which are single steps
UnlockedWriters == {t \in DOMAIN tasks : tasks[t].pc = "callback"}

\* C23: while the tasks of a parallel loop run, no two of them are writing
\* the same shared variable at the same time outside the lock, so no update
\* of a counter of the request callback is lost
C23_SharedWritesExclusive ==
  /\ Cardinality(UnlockedWriters) <= 1
  /\ requestCallback => requestCount = Len(callbackLog)

\* the bindings of the user variables that the evaluator sees
Bindings(arena, sc) == [v \in VarNames |-> Get(arena, sc, v)]

\* C24: while a parallel loop runs, no step of a task changes a scope of the
\* parent, its current scope or its previous response; every task holds the
\* previous response of loop entry and resolves $_ against it; and when the
\* loop returns, the parent's previous response, and on a return without
\* error its current scope and bindings, are what they were at loop entry
C24_ParallelTasksIsolated ==
  [][ /\ (par.fn # "none" /\ par'.fn # "none")
         => /\ scopes' = scopes /\ scope' = scope /\ prevResponse' = prevResponse
            /\ \A t \in DOMAIN tasks' :
                 tasks'[t].pc # "acquire"
                   => /\ tasks'[t].prevResponse = prevResponse
                      /\ \A n \in DOMAIN tasks'[t].iterRequests :
                           par.stmt.Body[1].UsesPrev =>
                             tasks'[t].iterRequests[n].auth = interpolateBearer(Env)
            /\ \A k \in DOMAIN callbackLog' :
                 k > Len(callbackLog) /\ par.stmt.Body[1].UsesPrev
                   => callbackLog'[k].auth = interpolateBearer(Env)
      /\ (par.fn # "none" /\ par'.fn = "none")
         => /\ prevResponse' = prevResponse
            /\ ret'.state = "running"
                 => /\ scope' = scope
                    /\ Bindings(scopes', scope') = Bindings(scopes, scope) ]_vars

\* a loop entered with a previous response that has a token has returned:
\* its tasks sent that token, and so does the request after the loop, though
\* the callback returned another token in between
C24_Witness ==
  /\ entry = "execute" /\ requestCallback /\ par.fn = "none"
  /\ encountered = <<20>> /\ Len(callbackLog) = 4
  /\ callbackLog[2].auth = "Bearer abc" /\ callbackLog[3].auth = "Bearer abc"
  /\ callbackLog[4].id = 3 /\ callbackLog[4].auth = "Bearer abc"
  /\ lastResp = Resp("xyz")

\* the sequential loops that a step returns from: their frames are on the
\* stack before the step and not after it
ReturningLoops ==
  {k \in DOMAIN stack : k > Len(stack') /\ stack[k].kind = "evalForCollect"}

\* C25: when a sequential loop returns, after its last iteration or with an
\* error (of a descriptor, of the callback, of a nested statement), the
\* current scope is the scope of loop entry and nothing the body bound (item,
\* index, definitions) is visible from it
C25_SequentialLoopRestoresScope ==
  [][ \A k \in ReturningLoops :
        /\ scope' = stack[k].entryScope
        /\ Len(scopes') = scope'
        /\ \A v \in VarNames : Get(scopes', scope', v) = stack[k].entryVars[v] ]_vars

\* the loop bound x and i, its second iteration failed, and the caller's
\* scope holds neither
C25_Witness ==
  /\ ret.state = "done" /\ ret.err.kind = "timeout"
  /\ program = SeqDefProgram(ListV(<<IntV(5), StrV("v")>>))
  /\ nextUid = 3
  /\ scope = 1 /\ Get(scopes, scope, "x") = Unset /\ Get(scopes, scope, "i") = Unset

\* the input bytes behind the lexer's position
Consumed(p) == IF p > Len(input) THEN Len(input) ELSE p

\* one NextToken call consumes a byte, pops an indentation level, drains a
\* pending DEDENT, or returns EOF
LexerProgress ==
  \/ readPos = 0
  \/ Consumed(pos') > Consumed(pos)
  \/ Len(indentStack') < Len(indentStack)
  \/ Len(pendingTokens') < Len(pendingTokens)
  \/ /\ lexDone' /\ tokens'[Len(tokens')] = "EOF"

\* EOF is the last token of a finished stream and occurs nowhere else
OneEOF ==
  /\ lexDone => /\ Len(tokens) > 0 /\ tokens[Len(tokens)] = "EOF"
                /\ CountTok(tokens, "EOF") = 1
  /\ ~lexDone => CountTok(tokens, "EOF") = 0

C27_StatsAddUp ==
  \A n \in 1..Len(GetAllParallelStats) :
    GetAllParallelStats[n].success + GetAllParallelStats[n].failed
      = GetAllParallelStats[n].total

\* the goroutines that hold a slot of the gate
SlotHolders == {t \in DOMAIN tasks : TaskRunning(t)}

\* C28: provided every callback invocation returns, a parallel loop always
\* terminates: the slots taken are those of the goroutines that run, a
\* goroutine that has ended holds none, the join completes only when every
\* goroutine has acquired a slot and ended, and it does complete.
C28_ParallelLoopTerminates ==
  /\ [](par.fn # "none" => par.sem = Cardinality(SlotHolders))
  /\ [][par.fn # "none" /\ par'.fn = "none"
         => \A t \in DOMAIN tasks : tasks[t].pc = "done"]_vars
  /\ (par.fn # "none") ~> (par.fn = "none")

\* two or more goroutines behind a gate of one slot have all ended, one of
\* them by failure, and wg.Wait() is about to return
C28_Witness ==
  /\ par.fn # "none" /\ par.concurrency = 1 /\ Len(tasks) >= 2
  /\ \A t \in DOMAIN tasks : tasks[t].pc = "done"
  /\ Len(par.errors) > 0 /\ par.stats.Success > 0
  /\ par.sem = 0 /\ par.wg = 0

\* the statement list parsed at the level the source is about
LevelList(r, level) ==
  IF level = "top" THEN r.Statements
  ELSE IF Len(r.Statements) = 0 THEN <<>>
  ELSE IF level = "for" THEN r.Statements[1].Body
  ELSE r.Statements[1].Branches[1]

\* the statements written at the level the source is about
LevelStmts(src) ==
  IF src.level = "top" THEN src.stmts ELSE src.stmts[1].Body

\* C29: parsing loses no statement: for a source made of well-formed
\* statements at one indentation level (top level, a for body, or a
\* conditional body), the parsed statement list has one node per source
\* statement, in source order, also for a statement that directly follows a
\* request with no separator between them.
C29_ParsingLosesNoStatement ==
  (callResult # <<>> /\ callArg[1].level \in {"top", "for", "if"}) =>
    /\ callResult[1].ok
    /\ LevelList(callResult[1], callArg[1].level) = SeqNodes(LevelStmts(callArg[1]))

\* C30: every statement lexically inside the indented body of a conditional
\* branch is placed in that branch's Body, also the statements that follow a
\* nested for-loop inside the body, and an else or ":" alternative that
\* follows such a body is attached to the same conditional.
C30_BranchBodyComplete ==
  (callResult # <<>> /\ callArg[1].level = "cond") =>
    /\ callResult[1].ok
    /\ Len(callResult[1].Statements) > 0
    /\ callResult[1].Statements[1].Kind = "IfStmt"
    /\ callResult[1].Statements[1].Branches = <<SeqNodes(callArg[1].stmts[1].Body)>>
    /\ callResult[1].Statements[1].Else = SeqNodes(callArg[1].stmts[1].Else)

====
